---------------------------- MODULE Spec2Model ----------------------------
(***************************************************************************)
(* A model of the inkspire interactive-fiction engine:                     *)
(*   - the identifier resolver            (src/src/identifiers.js 1-74)    *)
(*   - Action and Conditional             (src/src/variables.js, and the   *)
(*     second copy of that module, src/unnamed/part_001)                   *)
(*   - Text, Option, Scene, Adventure     (src/unnamed/part_002)           *)
(*   - AdventureEngine                    (src/src/identifiers.js 77-295)  *)
(*                                                                         *)
(* JavaScript strings are modelled as sequences of one-character strings,  *)
(* so that the regular expressions of the source are modelled by what they *)
(* match.  JavaScript numbers are modelled as signed exact rationals with  *)
(* the IEEE special values (signed zero, +-Infinity, NaN); rounding of     *)
(* doubles is not modelled.                                                *)
(***************************************************************************)
EXTENDS Integers, Sequences, FiniteSets, TLC

(***************************************************************************)
(* Characters and strings                                                  *)
(***************************************************************************)
Digits == {"0", "1", "2", "3", "4", "5", "6", "7", "8", "9"}

Letters ==
  {"a", "b", "c", "d", "e", "f", "g", "h", "i", "j", "k", "l", "m",
   "n", "o", "p", "q", "r", "s", "t", "u", "v", "w", "x", "y", "z",
   "A", "B", "C", "D", "E", "F", "G", "H", "I", "J", "K", "L", "M",
   "N", "O", "P", "Q", "R", "S", "T", "U", "V", "W", "X", "Y", "Z"}

\* \w of a JavaScript regular expression
WordChars == Letters \cup Digits \cup {"_"}

\* the part of \s that the model's inputs use
WhiteSpace == {" "}

DigitValue(c) ==
  CASE c = "0" -> 0 [] c = "1" -> 1 [] c = "2" -> 2 [] c = "3" -> 3
    [] c = "4" -> 4 [] c = "5" -> 5 [] c = "6" -> 6 [] c = "7" -> 7
    [] c = "8" -> 8 [] c = "9" -> 9

DigitChar(n) ==
  CASE n = 0 -> "0" [] n = 1 -> "1" [] n = 2 -> "2" [] n = 3 -> "3"
    [] n = 4 -> "4" [] n = 5 -> "5" [] n = 6 -> "6" [] n = 7 -> "7"
    [] n = 8 -> "8" [] n = 9 -> "9"

\* s.substring(i-1, j) with 1-based inclusive bounds; empty when j < i
Sub(s, i, j) == IF j < i THEN << >> ELSE SubSeq(s, i, j)

\* the end (inclusive) of the longest run of characters of set cs that
\* starts at position i of s; i-1 when s[i] is not in cs
RunEnd(s, i, cs) ==
  IF i > Len(s) THEN i - 1
  ELSE CHOOSE e \in (i - 1)..Len(s) :
         /\ \A j \in i..e : s[j] \in cs
         /\ e = Len(s) \/ s[e + 1] \notin cs

\* s.startsWith(p, i-1)
StartsWithAt(s, i, p) ==
  /\ i + Len(p) - 1 <= Len(s)
  /\ \A k \in 1..Len(p) : s[i + k - 1] = p[k]

\* s.replaceAll(c, '') for a set of characters
StripChars(s, cs) == SelectSeq(s, LAMBDA c : c \notin cs)

\* the positions of character c in s
Occurrences(s, c) == {i \in 1..Len(s) : s[i] = c}

\* the number of occurrences of character c in s
CountChar(s, c) == Cardinality(Occurrences(s, c))

\* the position of the k-th occurrence of c in s; 0 for k = 0 and
\* Len(s) + 1 when there are fewer than k
Occurrence(s, c, k) ==
  IF k = 0 THEN 0
  ELSE IF k > CountChar(s, c) THEN Len(s) + 1
  ELSE CHOOSE i \in Occurrences(s, c) :
         Cardinality({j \in Occurrences(s, c) : j <= i}) = k

(***************************************************************************)
(* JavaScript values                                                       *)
(***************************************************************************)
\* a number s * n / d; d = 0 stands for Infinity (n = 1) and NaN (n = 0)
Num(s, n, d) == [t |-> "num", s |-> s, n |-> n, d |-> d]
IntNum(i) == IF i < 0 THEN Num(-1, -i, 1) ELSE Num(1, i, 1)
NaN == Num(1, 0, 0)
Infinity(s) == Num(s, 1, 0)
Zero(s) == Num(s, 0, 1)
Bool(b) == [t |-> "bool", s |-> 1, n |-> (IF b THEN 1 ELSE 0), d |-> 1]
Undefined == [t |-> "undef", s |-> 1, n |-> 0, d |-> 0]

IsNaN(v) == v.t = "num" /\ v.n = 0 /\ v.d = 0
IsInf(v) == v.t = "num" /\ v.n = 1 /\ v.d = 0
IsZero(v) == v.t = "num" /\ v.n = 0 /\ v.d = 1
IsFinite(v) == v.t = "num" /\ v.d > 0

RECURSIVE GCD(_, _)
GCD(a, b) == IF b = 0 THEN a ELSE GCD(b, a % b)

\* the finite number s * n / d in lowest terms (d > 0)
Norm(s, n, d) ==
  IF n = 0 THEN Zero(s)
  ELSE Num(s, n \div GCD(n, d), d \div GCD(n, d))

Abs(i) == IF i < 0 THEN -i ELSE i

\* ToNumber: undefined is NaN, true is 1, false is 0
ToNumber(v) ==
  CASE v.t = "num" -> v
    [] v.t = "bool" -> Num(1, v.n, 1)
    [] OTHER -> NaN

\* ToBoolean: 0, -0, NaN, false and undefined are falsy
Truthy(v) ==
  CASE v.t = "num" -> ~(IsNaN(v) \/ IsZero(v))
    [] v.t = "bool" -> v.n = 1
    [] OTHER -> FALSE

Neg(v) == IF IsNaN(v) THEN v ELSE Num(-(v.s), v.n, v.d)

\* the signed integer as a finite number in lowest terms over d
Signed(num, d) ==
  Norm(IF num < 0 THEN -1 ELSE 1, Abs(num), d)

\* a + b on numbers
AddNumbers(a, b) ==
  CASE IsNaN(a) \/ IsNaN(b) -> NaN
    [] IsInf(a) /\ IsInf(b) -> (IF a.s = b.s THEN a ELSE NaN)
    [] IsInf(a) -> a
    [] IsInf(b) -> b
    [] a.s * a.n * b.d + b.s * b.n * a.d = 0 ->
         Zero(IF IsZero(a) /\ IsZero(b) /\ a.s = -1 /\ b.s = -1 THEN -1 ELSE 1)
    [] OTHER -> Signed(a.s * a.n * b.d + b.s * b.n * a.d, a.d * b.d)

NumAdd(x, y) == AddNumbers(ToNumber(x), ToNumber(y))

NumSub(x, y) == AddNumbers(ToNumber(x), Neg(ToNumber(y)))

\* a * b on numbers
MulNumbers(a, b) ==
  CASE IsNaN(a) \/ IsNaN(b) -> NaN
    [] (IsInf(a) /\ IsZero(b)) \/ (IsZero(a) /\ IsInf(b)) -> NaN
    [] IsInf(a) \/ IsInf(b) -> Infinity(a.s * b.s)
    [] OTHER -> Norm(a.s * b.s, a.n * b.n, a.d * b.d)

NumMul(x, y) == MulNumbers(ToNumber(x), ToNumber(y))

\* a / b on numbers
DivNumbers(a, b) ==
  CASE IsNaN(a) \/ IsNaN(b) -> NaN
    [] (IsInf(a) /\ IsInf(b)) \/ (IsZero(a) /\ IsZero(b)) -> NaN
    [] IsInf(a) \/ IsZero(b) -> Infinity(a.s * b.s)
    [] IsInf(b) -> Zero(a.s * b.s)
    [] OTHER -> Norm(a.s * b.s, a.n * b.d, a.d * b.n)

NumDiv(x, y) == DivNumbers(ToNumber(x), ToNumber(y))

\* a % b on numbers: the remainder takes the sign of the dividend
ModNumbers(a, b) ==
  CASE IsNaN(a) \/ IsNaN(b) \/ IsInf(a) \/ IsZero(b) -> NaN
    [] IsInf(b) \/ IsZero(a) -> a
    [] OTHER -> Norm(a.s, (a.n * b.d) % (b.n * a.d), a.d * b.d)

NumMod(x, y) == ModNumbers(ToNumber(x), ToNumber(y))

\* a < b on numbers (false when either is NaN)
LessNumbers(a, b) ==
  CASE IsNaN(a) \/ IsNaN(b) -> FALSE
    [] IsInf(a) /\ IsInf(b) -> a.s < b.s
    [] IsInf(a) -> a.s = -1
    [] IsInf(b) -> b.s = 1
    [] OTHER -> a.s * a.n * b.d < b.s * b.n * a.d

NumLess(x, y) == LessNumbers(ToNumber(x), ToNumber(y))

\* a == b on numbers (false when either is NaN, -0 equals 0)
EqualNumbers(a, b) ==
  CASE IsNaN(a) \/ IsNaN(b) -> FALSE
    [] IsZero(a) /\ IsZero(b) -> TRUE
    [] OTHER -> a = b

NumEq(x, y) == EqualNumbers(ToNumber(x), ToNumber(y))

\* a === b
StrictEq(a, b) ==
  IF a.t # b.t THEN FALSE
  ELSE IF a.t = "num" THEN NumEq(a, b)
  ELSE a = b

\* parseFloat / Number of a token matching /^\d+(\.\d+)?$/
RECURSIVE DigitsToNat(_, _)
DigitsToNat(s, acc) ==
  IF s = << >> THEN acc ELSE DigitsToNat(Tail(s), 10 * acc + DigitValue(Head(s)))

RECURSIVE Pow10(_)
Pow10(k) == IF k = 0 THEN 1 ELSE 10 * Pow10(k - 1)

\* the number whose integer part ends at position e of tok
Decimal(tok, e) ==
  IF e = Len(tok) THEN IntNum(DigitsToNat(tok, 0))
  ELSE Norm(1, DigitsToNat(Sub(tok, 1, e) \o Sub(tok, e + 2, Len(tok)), 0),
            Pow10(Len(tok) - e - 1))

ParseNumber(tok) == Decimal(tok, RunEnd(tok, 1, Digits))

(***************************************************************************)
(* Outcomes of an operation: a returned value or the way it ended          *)
(***************************************************************************)
\* normal completion with value v
Ok(v) == [k |-> "ok", v |-> v]

\* an uncaught JavaScript exception of class cls (Error, TypeError,
\* ReferenceError) with the given message
Throw(cls, msg) == [k |-> "throw", cls |-> cls, msg |-> msg]

\* ParserContext.throwError(location, message): the message and the location
\* tags go to console.error and the process exits
ThrowError(location, msg) == [k |-> "exit", location |-> location, msg |-> msg]

\* array.map(f): the list done so far with the value r of the next call
\* appended, or the way the first failing call ended
Push(done, r) ==
  IF done.k # "ok" THEN done
  ELSE IF r.k # "ok" THEN r
  ELSE Ok(Append(done.v, r.v))

\* the context arguments a caller passes: a ParserContext, or none
Contexts == {"ParserContext", "undefined"}

\* context.throwError(location, msg) for the context a caller passed
ContextThrowError(context, location, msg) ==
  IF context = "undefined"
  THEN Throw("TypeError", "Cannot read properties of undefined")
  ELSE ThrowError(location, msg)

(***************************************************************************)
(* Identifier resolver                                                     *)
(***************************************************************************)
\* s.split(c, limit): the pieces of s between occurrences of separator c,
\* at most limit of them, the rest is dropped
Split(s, c, limit) ==
  [k \in 1..(IF CountChar(s, c) + 1 > limit THEN limit ELSE CountChar(s, c) + 1) |->
     Sub(s, Occurrence(s, c, k - 1) + 1, Occurrence(s, c, k) - 1)]

asIdentifier(namespace, name) == namespace \o <<":">> \o name

\* the rest of parseIdentifier once parts is set, for a resolver that
\* ignores the namespace an identifier names
IdentifierOfWrong(parts, defaultNamespace, context) ==
  IF Len(parts) > 2
  THEN ContextThrowError(context, "identifier", "Malformed identifier")
  ELSE Ok(asIdentifier(defaultNamespace, parts[1]))

\* the rest of parseIdentifier once parts is set
IdentifierOf(parts, defaultNamespace, context) ==
  IF Len(parts) > 2
  THEN ContextThrowError(context, "identifier", "Malformed identifier")
  ELSE IF Len(parts) = 2
  THEN Ok(asIdentifier(parts[1], parts[2]))
  ELSE Ok(asIdentifier(defaultNamespace, parts[1]))

parseIdentifierWrong(identifierString, defaultNamespace, context) ==
  IdentifierOfWrong(Split(identifierString, ":", 3), defaultNamespace, context)

parseIdentifier(identifierString, defaultNamespace, context) ==
  IdentifierOf(Split(identifierString, ":", 3), defaultNamespace, context)

\* identifierRegex = /^([a-zA-Z0-9_]+):([a-zA-Z0-9_]+)$/
isValidIdentifier(candidateIdentifier) ==
  \E e \in {RunEnd(candidateIdentifier, 1, WordChars)} :
    /\ e >= 1
    /\ e + 2 <= Len(candidateIdentifier)
    /\ candidateIdentifier[e + 1] = ":"
    /\ RunEnd(candidateIdentifier, e + 2, WordChars) = Len(candidateIdentifier)

\* the part of an identifier at the given place, for parts its split
IdentifierPart(parts, place) ==
  IF Len(parts) # 2 THEN Throw("Error", "Malformed identifier")
  ELSE Ok(parts[place])

getIdentifierNamespace(identifier) == IdentifierPart(Split(identifier, ":", 3), 1)

getIdentifierName(identifier) == IdentifierPart(Split(identifier, ":", 3), 2)

(***************************************************************************)
(* The VariableStore: a JavaScript object used as a map from identifier    *)
(* to value.  Reading a key that was never written gives undefined.        *)
(***************************************************************************)
Lookup(store, name) == IF name \in DOMAIN store THEN store[name] ELSE Undefined

Assign(store, name, value) ==
  [n \in DOMAIN store \cup {name} |-> IF n = name THEN value ELSE store[n]]

EmptyStore == [n \in {} |-> Undefined]

\* throw new Error(`Variable ${name} used before assignment.`)
UsedBeforeAssignment(name) ==
  [k |-> "throw", cls |-> "Error", msg |-> "used before assignment", id |-> name]

(***************************************************************************)
(* Action: tokens                                                          *)
(***************************************************************************)
ArithmeticSymbols == {"+", "-", "*", "/", "%"}

\* numberRegex = /^\d+(\.\d+)?$/
numberRegex(tok) ==
  \E e \in {RunEnd(tok, 1, Digits)} :
    /\ e >= 1
    /\ \/ e = Len(tok)
       \/ /\ e + 2 <= Len(tok)
          /\ tok[e + 1] = "."
          /\ RunEnd(tok, e + 2, Digits) = Len(tok)

\* variableRegex = /^[a-zA-Z_][a-zA-Z0-9_:]*$/
variableRegex(tok) ==
  /\ tok # << >>
  /\ tok[1] \in Letters \cup {"_"}
  /\ RunEnd(tok, 2, WordChars \cup {":"}) = Len(tok)

\* the end of the numeral \d+(\.\d+)? whose digits before the point end
\* at position e of s
FractionEnd(s, e) ==
  IF e + 2 <= Len(s) /\ s[e + 1] = "." /\ s[e + 2] \in Digits
  THEN RunEnd(s, e + 2, Digits) ELSE e

\* the end of the match of actionTokenRegex =
\* /\d+(\.\d+)?|[a-zA-Z_][a-zA-Z0-9_:]*|[+\-*/%()]/g at position i of s;
\* i - 1 for a character that starts no alternative
actionTokenEnd(s, i) ==
  CASE s[i] \in Digits -> FractionEnd(s, RunEnd(s, i, Digits))
    [] s[i] \in Letters \cup {"_"} -> RunEnd(s, i + 1, WordChars \cup {":"})
    [] s[i] \in ArithmeticSymbols \cup {"(", ")"} -> i
    [] OTHER -> i - 1

\* a scan of a global regular expression: the position it is at and the
\* matches so far
Scan(i, tokens) == [i |-> i, tokens |-> tokens]

\* the scan after the match from i to e; a character that matches nothing
\* (e < i) is skipped
Matched(s, i, e, tokens) ==
  IF e < i THEN Scan(i + 1, tokens) ELSE Scan(e + 1, Append(tokens, Sub(s, i, e)))

\* expression.match(actionTokenRegex)
RECURSIVE actionTokens(_, _)
actionTokens(s, scan) ==
  IF scan.i > Len(s) THEN scan.tokens
  ELSE actionTokens(s, Matched(s, scan.i, actionTokenEnd(s, scan.i), scan.tokens))

\* the entries of an output queue: a number, 'v' + identifier, or a symbol
NumTok(v) == [k |-> "num", v |-> v]
VarTok(id) == [k |-> "var", id |-> id]
SymTok(sym) == [k |-> "sym", sym |-> sym]

\* operators[token] is defined
IsArithmeticOperator(tok) == Len(tok) = 1 /\ tok[1] \in ArithmeticSymbols

\* the operators table of Action.createEvaluator
ArithmeticApply(sym, a, b) ==
  CASE sym = "+" -> NumAdd(a, b)
    [] sym = "-" -> NumSub(a, b)
    [] sym = "*" -> NumMul(a, b)
    [] sym = "/" -> NumDiv(a, b)
    [] sym = "%" -> NumMod(a, b)

(***************************************************************************)
(* Action.createEvaluator: the shunting-yard loop                          *)
(***************************************************************************)
\* stack.pop(): undefined on an empty stack
Top(stack) == IF stack = << >> THEN Undefined ELSE stack[Len(stack)]
Pop(stack) == IF stack = << >> THEN << >> ELSE SubSeq(stack, 1, Len(stack) - 1)

\* outputQueue and operatorStack between two tokens
Yard(out, ops) == [out |-> out, ops |-> ops]

\* the while loop run on an operator token: moves the operators on top of
\* the stack to the output queue, only when the incoming token is + or -
RECURSIVE ActionPopOperators(_, _)
ActionPopOperators(tok, yard) ==
  IF /\ yard.ops # << >>
     /\ IsArithmeticOperator(Top(yard.ops))
     /\ tok[1] \in {"+", "-"}
  THEN ActionPopOperators(tok, Yard(Append(yard.out, SymTok(Top(yard.ops))),
                                    Pop(yard.ops)))
  ELSE yard

\* the while loop run on ')': moves the stack down to the last '('
RECURSIVE PopToOpen(_)
PopToOpen(yard) ==
  IF yard.ops # << >> /\ Top(yard.ops) # <<"(">>
  THEN PopToOpen(Yard(Append(yard.out, SymTok(Top(yard.ops))), Pop(yard.ops)))
  ELSE yard

\* the loop that empties the operator stack into the output queue
RECURSIVE PopAll(_)
PopAll(yard) ==
  IF yard.ops = << >> THEN yard.out
  ELSE PopAll(Yard(Append(yard.out, SymTok(Top(yard.ops))), Pop(yard.ops)))

\* a variable token goes to the output queue under the identifier id it
\* parses to
ShuntVariable(id, yard) ==
  IF id.k # "ok" THEN id ELSE Ok(Yard(Append(yard.out, VarTok(id.v)), yard.ops))

\* an operator token is pushed on the stack p the while loop left
ShuntOperator(token, p) == Ok(Yard(p.out, Append(p.ops, token)))

\* ')' on the stack p the while loop left: the '(' is popped, and a stack
\* without one is an error
ActionShuntClose(p, context) ==
  IF p.ops = << >>
  THEN ContextThrowError(context, "adventure", "Mismatched parentheses")
  ELSE Ok(Yard(p.out, Pop(p.ops)))

\* one pass of tokens.forEach in Action.createEvaluator
ActionShunt(token, yard, defaultNamespace, context) ==
  CASE numberRegex(token) ->
         Ok(Yard(Append(yard.out, NumTok(ParseNumber(token))), yard.ops))
    [] variableRegex(token) ->
         ShuntVariable(parseIdentifier(token, defaultNamespace, "undefined"), yard)
    [] IsArithmeticOperator(token) ->
         ShuntOperator(token, ActionPopOperators(token, yard))
    [] token = <<"(">> -> Ok(Yard(yard.out, Append(yard.ops, token)))
    [] OTHER -> ActionShuntClose(PopToOpen(yard), context)

\* tokens.forEach(...) from the i-th token on, then the loop that empties
\* the stack; y is the outcome so far
RECURSIVE ActionShuntingYard(_, _, _, _, _)
ActionShuntingYard(tokens, i, y, defaultNamespace, context) ==
  IF y.k # "ok" THEN y
  ELSE IF i > Len(tokens) THEN Ok(PopAll(y.v))
  ELSE ActionShuntingYard(tokens, i + 1,
                          ActionShunt(tokens[i], y.v, defaultNamespace, context),
                          defaultNamespace, context)

\* the rest of Action.createEvaluator once the expression is split in tokens
ActionEvaluatorOf(tokens, defaultNamespace, context) ==
  IF tokens = << >>
  THEN ContextThrowError(context, "adventure", "Invalid expression")
  ELSE ActionShuntingYard(tokens, 1, Ok(Yard(<< >>, << >>)), defaultNamespace, context)

\* Action.createEvaluator up to the returned closure: the output queue
ActionCreateEvaluator(expression, defaultNamespace, context) ==
  ActionEvaluatorOf(actionTokens(expression, Scan(1, << >>)), defaultNamespace, context)

\* the pass without `if (variables[token] === undefined) throw ...`: the
\* value of a variable is pushed whether it has an entry or not
ActionRunUnchecked(token, stack, store) ==
  CASE token.k = "num" -> Ok(Append(stack, token.v))
    [] token.k = "var" -> Ok(Append(stack, Lookup(store, token.id)))
    [] IsArithmeticOperator(token.sym) ->
         Ok(Append(Pop(Pop(stack)),
                   ArithmeticApply(token.sym[1], Top(Pop(stack)), Top(stack))))
    [] OTHER -> Ok(stack)

\* one pass of outputQueue.forEach in the closure Action.createEvaluator
\* returns: the stack it leaves, or the exception it throws
ActionRun(token, stack, store) ==
  CASE token.k = "num" -> Ok(Append(stack, token.v))
    [] token.k = "var" ->
         IF Lookup(store, token.id) = Undefined
         THEN UsedBeforeAssignment(token.id)
         ELSE Ok(Append(stack, store[token.id]))
    [] IsArithmeticOperator(token.sym) ->
         Ok(Append(Pop(Pop(stack)),
                   ArithmeticApply(token.sym[1], Top(Pop(stack)), Top(stack))))
    [] OTHER -> \* console.error('Encountered unexpected token'): a left '('
         Ok(stack)

\* outputQueue.forEach(...) from the i-th entry on, then return stack[0]; y
\* is the outcome so far
RECURSIVE ActionRunQueue(_, _, _, _)
ActionRunQueue(outputQueue, i, y, store) ==
  IF y.k # "ok" THEN y
  ELSE IF i > Len(outputQueue) THEN Ok(IF y.v = << >> THEN Undefined ELSE y.v[1])
  ELSE ActionRunQueue(outputQueue, i + 1, ActionRun(outputQueue[i], y.v, store), store)

\* the closure returned by Action.createEvaluator, run on the store
ActionRunEvaluator(outputQueue, stack, store) ==
  ActionRunQueue(outputQueue, 1, Ok(stack), store)

(***************************************************************************)
(* Action: constructor, evaluate, parseActions                             *)
(***************************************************************************)
\* s.trim()
TrimLeft(s) == Sub(s, RunEnd(s, 1, WhiteSpace) + 1, Len(s))

\* the start of the longest run of characters of set cs that ends at
\* position i of s; i+1 when s[i] is not in cs
RunStart(s, i, cs) ==
  CHOOSE b \in 1..(i + 1) :
    /\ \A j \in b..i : s[j] \in cs
    /\ b = 1 \/ s[b - 1] \notin cs

TrimRight(s) == Sub(s, 1, RunStart(s, Len(s), WhiteSpace) - 1)

Trim(s) == TrimRight(TrimLeft(s))

\* an assignment operator [+\-*/]?= starts at position p of s
AssignmentAt(s, p) ==
  \/ s[p] = "="
  \/ s[p] \in {"+", "-", "*", "/"} /\ p + 1 <= Len(s) /\ s[p + 1] = "="

\* action.match(actionRegex) with actionRegex = /(.*?)([+\-*/]?=)(.*)/:
\* the first position p where an assignment operator starts and its
\* length, p = 0 when there is none
actionRegex(s) ==
  IF \A p \in 1..Len(s) : ~AssignmentAt(s, p) THEN [p |-> 0, len |-> 0]
  ELSE [p |-> CHOOSE p \in 1..Len(s) :
                AssignmentAt(s, p) /\ \A q \in 1..(p - 1) : ~AssignmentAt(s, q),
        len |-> IF s[CHOOSE p \in 1..Len(s) :
                       AssignmentAt(s, p) /\ \A q \in 1..(p - 1) : ~AssignmentAt(s, q)] = "="
                THEN 1 ELSE 2]

\* the Action of the given parts, or the failure of the first part that
\* failed
ActionOf(variableName, operator, evaluator) ==
  IF variableName.k # "ok" THEN variableName
  ELSE IF evaluator.k # "ok" THEN evaluator
  ELSE Ok([variableName |-> variableName.v,
           operator |-> operator,
           evaluator |-> evaluator.v])

\* the rest of the constructor of Action for the match of actionRegex
ActionMatched(action, match, defaultNamespace, context) ==
  IF match.p = 0
  THEN ContextThrowError(context, "adventure", "Malformed action")
  ELSE ActionOf(parseIdentifier(Trim(Sub(action, 1, match.p - 1)),
                                defaultNamespace, "undefined"),
                Sub(action, match.p, match.p + match.len - 1),
                ActionCreateEvaluator(Trim(Sub(action, match.p + match.len, Len(action))),
                                      defaultNamespace, context))

\* new Action(action, variables, defaultNamespace, context)
NewAction(action, defaultNamespace, context) ==
  ActionMatched(action, actionRegex(action), defaultNamespace, context)

\* the assignment Action.evaluate() ends with, for the value of the
\* expression and the value old the variable had
ActionAssign(action, store, value, old) ==
  IF value.k # "ok" THEN [outcome |-> value, store |-> store]
  ELSE
    [outcome |-> Ok(Undefined),
     store |->
       CASE action.operator = <<"=">> -> Assign(store, action.variableName, value.v)
         [] action.operator = <<"+", "=">> ->
              Assign(store, action.variableName, NumAdd(old, value.v))
         [] action.operator = <<"-", "=">> ->
              Assign(store, action.variableName, NumSub(old, value.v))
         [] action.operator = <<"*", "=">> ->
              Assign(store, action.variableName, NumMul(old, value.v))
         [] action.operator = <<"/", "=">> ->
              Assign(store, action.variableName, NumDiv(old, value.v))]

\* Action.evaluate(): the outcome and the store it leaves
ActionEvaluate(action, store) ==
  ActionAssign(action, store, ActionRunEvaluator(action.evaluator, << >>, store),
               Lookup(store, action.variableName))

(***************************************************************************)
(* Conditional.  The repository holds two copies of the variables module.  *)
(* src/unnamed/part_001 compiles a condition to postfix with               *)
(* Conditional.createEvaluator; src/src/variables.js replaces that class   *)
(* by a constructor that builds a prefix token list.                       *)
(***************************************************************************)
Implementations == {"part_001", "variables.js"}

\* the ends of the three groups of a match of numberRangeRegex =
\* /(\w+)=(\d+)\.\.(\d+)/g that starts at position i of s
RangeVarEnd(s, i) == RunEnd(s, i, WordChars)
RangeLowEnd(s, i) == RunEnd(s, RangeVarEnd(s, i) + 2, Digits)
RangeHighEnd(s, i) == RunEnd(s, RangeLowEnd(s, i) + 3, Digits)

\* numberRangeRegex matches at position i of s, its groups ending at v, a
\* and b
IsRange(s, i, v, a, b) ==
  /\ v >= i
  /\ v + 1 <= Len(s) /\ s[v + 1] = "="
  /\ a >= v + 2
  /\ StartsWithAt(s, a + 1, <<".", ".">>)
  /\ b >= a + 3

numberRangeAt(s, i) ==
  IsRange(s, i, RangeVarEnd(s, i), RangeLowEnd(s, i), RangeHighEnd(s, i))

\* the replacement of the match: (var>=start&&var<=end)
RangeCondition(var, start, end) ==
  <<"(">> \o var \o <<">", "=">> \o start \o <<"&", "&">>
    \o var \o <<"<", "=">> \o end \o <<")">>

\* a replace in progress: the position it is at and the text so far
Replacing(i, text) == [i |-> i, text |-> text]

\* the replace after the next match, which starts at position p
ReplacedAt(s, r, p) ==
  Replacing(RangeHighEnd(s, p) + 1,
            r.text \o Sub(s, r.i, p - 1)
              \o RangeCondition(Sub(s, p, RangeVarEnd(s, p)),
                                Sub(s, RangeVarEnd(s, p) + 2, RangeLowEnd(s, p)),
                                Sub(s, RangeLowEnd(s, p) + 3, RangeHighEnd(s, p))))

\* conditional.replace(numberRangeRegex, ...): each match becomes
\* (var>=start&&var<=end)
RECURSIVE replaceNumberRange(_, _)
replaceNumberRange(s, r) ==
  IF \A p \in r.i..Len(s) : ~numberRangeAt(s, p)
  THEN r.text \o Sub(s, r.i, Len(s))
  ELSE replaceNumberRange(s,
         ReplacedAt(s, r, CHOOSE p \in r.i..Len(s) :
                            numberRangeAt(s, p)
                              /\ \A q \in r.i..(p - 1) : ~numberRangeAt(s, q)))

ConditionalSymbols == {<<">", "=">>, <<"<", "=">>, <<"=", "=">>, <<"=">>,
                       <<"&", "&">>, <<"|", "|">>}

\* the end of the match of conditionalTokenRegex =
\* /\w+|>=|<=|==|=|&&|\|\||[()]|[-\d]+/g at position i of s; i - 1 for a
\* character that starts no alternative
conditionalTokenEnd(s, i) ==
  CASE s[i] \in WordChars -> RunEnd(s, i, WordChars)
    [] \E sym \in {<<">", "=">>, <<"<", "=">>, <<"=", "=">>,
                   <<"&", "&">>, <<"|", "|">>} : StartsWithAt(s, i, sym) -> i + 1
    [] s[i] \in {"=", "(", ")"} -> i
    [] s[i] = "-" -> RunEnd(s, i, Digits \cup {"-"})
    [] OTHER -> i - 1

\* s.match(conditionalTokenRegex)
RECURSIVE conditionalTokens(_, _)
conditionalTokens(s, scan) ==
  IF scan.i > Len(s) THEN scan.tokens
  ELSE conditionalTokens(s, Matched(s, scan.i, conditionalTokenEnd(s, scan.i),
                                    scan.tokens))

\* an operators table where && and || have the same precedence
precedenceLevel(tok) ==
  CASE tok \in {<<"&", "&">>, <<"|", "|">>} -> 1
    [] OTHER -> 3

\* the operators table of Conditional.createEvaluator
precedence(tok) ==
  CASE tok = <<"&", "&">> -> 2
    [] tok = <<"|", "|">> -> 1
    [] OTHER -> 3

ConditionalApply(tok, a, b) ==
  CASE tok = <<"&", "&">> -> (IF Truthy(a) THEN b ELSE a)
    [] tok = <<"|", "|">> -> (IF Truthy(a) THEN a ELSE b)
    [] tok = <<">", "=">> -> Bool(NumLess(b, a) \/ NumEq(a, b))
    [] tok = <<"<", "=">> -> Bool(NumLess(a, b) \/ NumEq(a, b))
    [] OTHER -> Bool(StrictEq(a, b))

\* the while loop run on an operator token; every operator is
\* left-associative
RECURSIVE ConditionalPopOperators(_, _)
ConditionalPopOperators(tok, yard) ==
  IF /\ yard.ops # << >>
     /\ Top(yard.ops) \in ConditionalSymbols
     /\ precedence(tok) <= precedence(Top(yard.ops))
  THEN ConditionalPopOperators(tok, Yard(Append(yard.out, SymTok(Top(yard.ops))),
                                         Pop(yard.ops)))
  ELSE yard

\* ')' on the stack p the while loop left: the '(' is popped
ConditionalShuntClose(p) == Ok(Yard(p.out, Pop(p.ops)))

\* one pass of tokens.forEach in Conditional.createEvaluator
ConditionalShunt(token, yard, defaultNamespace) ==
  CASE numberRegex(token) ->
         Ok(Yard(Append(yard.out, NumTok(ParseNumber(token))), yard.ops))
    [] variableRegex(token) ->
         ShuntVariable(parseIdentifier(token, defaultNamespace, "undefined"), yard)
    [] token \in ConditionalSymbols ->
         ShuntOperator(token, ConditionalPopOperators(token, yard))
    [] token = <<"(">> -> Ok(Yard(yard.out, Append(yard.ops, token)))
    [] token = <<")">> -> ConditionalShuntClose(PopToOpen(yard))
    [] OTHER -> \* a token of no class is dropped
         Ok(yard)

\* tokens.forEach(...) from the i-th token on, then the loop that empties
\* the stack; y is the outcome so far
RECURSIVE ConditionalShuntingYard(_, _, _, _)
ConditionalShuntingYard(tokens, i, y, defaultNamespace) ==
  IF y.k # "ok" THEN y
  ELSE IF i > Len(tokens) THEN Ok(PopAll(y.v))
  ELSE ConditionalShuntingYard(tokens, i + 1,
                               ConditionalShunt(tokens[i], y.v, defaultNamespace),
                               defaultNamespace)

\* the rest of Conditional.createEvaluator once the condition is split in
\* tokens
ConditionalEvaluatorOf(tokens, defaultNamespace, context) ==
  IF tokens = << >>
  THEN ContextThrowError(context, "adventure", "Malformed conditional")
  ELSE ConditionalShuntingYard(tokens, 1, Ok(Yard(<< >>, << >>)), defaultNamespace)

\* Conditional.createEvaluator up to the returned closure (part_001)
ConditionalCreateEvaluator(conditional, defaultNamespace, context) ==
  ConditionalEvaluatorOf(
    conditionalTokens(
      replaceNumberRange(StripChars(conditional, WhiteSpace), Replacing(1, << >>)),
      Scan(1, << >>)),
    defaultNamespace, context)

\* one pass of outputQueue.forEach in the closure
\* Conditional.createEvaluator returns: the stack it leaves, or the
\* exception it throws
ConditionalRun(token, stack, store) ==
  CASE token.k = "num" -> Ok(Append(stack, token.v))
    [] token.k = "var" ->
         IF Lookup(store, token.id) = Undefined
         THEN UsedBeforeAssignment(token.id)
         ELSE Ok(Append(stack, store[token.id]))
    [] token.sym \in ConditionalSymbols ->
         Ok(Append(Pop(Pop(stack)),
                   ConditionalApply(token.sym, Top(Pop(stack)), Top(stack))))
    [] OTHER -> \* a left '(' is skipped
         Ok(stack)

\* outputQueue.forEach(...) from the i-th entry on, then return !!stack[0];
\* y is the outcome so far
RECURSIVE ConditionalRunQueue(_, _, _, _)
ConditionalRunQueue(outputQueue, i, y, store) ==
  IF y.k # "ok" THEN y
  ELSE IF i > Len(outputQueue)
  THEN Ok(Bool(Truthy(IF y.v = << >> THEN Undefined ELSE y.v[1])))
  ELSE ConditionalRunQueue(outputQueue, i + 1,
                           ConditionalRun(outputQueue[i], y.v, store), store)

\* the closure returned by Conditional.createEvaluator (part_001)
ConditionalRunEvaluator(outputQueue, stack, store) ==
  ConditionalRunQueue(outputQueue, 1, Ok(stack), store)

\* the Conditional whose evaluator is the given one
ConditionalOf(evaluator) ==
  IF evaluator.k # "ok" THEN evaluator ELSE Ok([evaluator |-> evaluator.v])

\* new Conditional(expression, variables, defaultNamespace, context).
\* In src/src/variables.js the first statement of the constructor assigns
\* to conditionExpressionSubstring, a name that is declared nowhere; a class
\* body is strict mode code, so the assignment throws a ReferenceError.
NewConditional(impl, expression, defaultNamespace, context) ==
  IF impl = "variables.js"
  THEN Throw("ReferenceError", "conditionExpressionSubstring is not defined")
  ELSE ConditionalOf(ConditionalCreateEvaluator(expression, defaultNamespace, context))

\* Conditional.evaluate(); only an object of part_001 can exist
ConditionalEvaluate(conditional, store) ==
  ConditionalRunEvaluator(conditional.evaluator, << >>, store)

(***************************************************************************)
(* Text                                                                    *)
(***************************************************************************)
\* the decimal digits of a natural number
RECURSIVE NatToStr(_)
NatToStr(n) ==
  IF n < 10 THEN <<DigitChar(n)>> ELSE NatToStr(n \div 10) \o <<DigitChar(n % 10)>>

\* the digits of the fraction r / d, as far as they go, at most k of them;
\* JavaScript prints the shortest digits that read back as the same double,
\* which this equals for the fractions with a short finite expansion
RECURSIVE FractionDigits(_, _, _)
FractionDigits(r, d, k) ==
  IF r = 0 \/ k = 0 THEN << >>
  ELSE <<DigitChar((10 * r) \div d)>> \o FractionDigits((10 * r) % d, d, k - 1)

\* String(value), as Array.prototype.join applies it to an element;
\* join renders undefined as the empty string
ToStr(v) ==
  CASE v.t = "undef" -> << >>
    [] v.t = "bool" -> (IF v.n = 1 THEN <<"t", "r", "u", "e">>
                                   ELSE <<"f", "a", "l", "s", "e">>)
    [] IsNaN(v) -> <<"N", "a", "N">>
    [] IsInf(v) -> (IF v.s = -1 THEN <<"-">> ELSE << >>)
                     \o <<"I", "n", "f", "i", "n", "i", "t", "y">>
    [] OTHER ->
         (IF v.s = -1 /\ v.n > 0 THEN <<"-">> ELSE << >>)
           \o NatToStr(v.n \div v.d)
           \o (IF v.n % v.d = 0 THEN << >>
               ELSE <<".">> \o FractionDigits(v.n % v.d, v.d, 16))

\* the first position >= i where p starts in s, 0 when there is none
IndexOf(s, p, i) ==
  IF \A j \in i..Len(s) : ~StartsWithAt(s, j, p) THEN 0
  ELSE CHOOSE j \in i..Len(s) :
         StartsWithAt(s, j, p) /\ \A q \in i..(j - 1) : ~StartsWithAt(s, q, p)

\* the "}" at position close ends a marker that starts at i when [^}]+
\* matches one character at least
ClosedAt(i, close) == IF close > i + 2 THEN close ELSE 0

\* the end of a match of \${[^}]+} or \?\{[^}]+} that starts at i, else 0
MarkerEnd(s, i) ==
  IF (StartsWithAt(s, i, <<"$", "{">>) \/ StartsWithAt(s, i, <<"?", "{">>))
  THEN ClosedAt(i, IndexOf(s, <<"}">>, i + 2))
  ELSE 0

\* filter(Boolean) on one piece
Piece(piece) == IF piece = << >> THEN << >> ELSE <<piece>>

\* the split after the next marker, which starts at position p
SplitAt(s, scan, p) ==
  Scan(MarkerEnd(s, p) + 1,
       scan.tokens \o Piece(Sub(s, scan.i, p - 1)) \o <<Sub(s, p, MarkerEnd(s, p))>>)

\* str.split(/(\${[^}]+}|\?\{[^}]+})/g).filter(Boolean): the markers and the
\* non-empty pieces between them
RECURSIVE TextSplit(_, _)
TextSplit(s, scan) ==
  IF \A p \in scan.i..Len(s) : MarkerEnd(s, p) = 0
  THEN scan.tokens \o Piece(Sub(s, scan.i, Len(s)))
  ELSE TextSplit(s, SplitAt(s, scan,
                            CHOOSE p \in scan.i..Len(s) :
                              MarkerEnd(s, p) > 0
                                /\ \A q \in scan.i..(p - 1) : MarkerEnd(s, q) = 0))

\* group 1 of /\${(.*?)}/ for the "${" at open and the first "}" after it
VariableGroup(open, close) ==
  IF close = 0 THEN [first |-> 0, last |-> 0]
  ELSE [first |-> open + 2, last |-> close - 1]

\* /\${(.*?)}/.exec(token) tried from the first "${" of the token, at open
VariableMatchAt(token, open) ==
  IF open = 0 THEN [first |-> 0, last |-> 0]
  ELSE VariableGroup(open, IndexOf(token, <<"}">>, open + 2))

\* /\${(.*?)}/.exec(token): the (first, last) positions of group 1, or
\* first = 0 when the token has no match
variableMatch(token) == VariableMatchAt(token, IndexOf(token, <<"$", "{">>, 1))

\* the last "}" of the token from position from to position lim, 0 when
\* there is none
LastClose(token, from, lim) ==
  IF \A c \in from..lim : token[c] # "}" THEN 0
  ELSE CHOOSE c \in from..lim : token[c] = "}" /\ \A o \in (c + 1)..lim : token[o] # "}"

\* the groups of the match at "?{" at open, for the "?" at q that ends
\* group 1, the first ":" after it at colon, the first "}" after that at
\* close3 and the last "}" before the ":" at close2.  With group 3, group 2
\* lies between q and colon; without it, group 2 runs to close2.
ConditionalGroups(token, open, q, colon, close3, close2) ==
  IF q = 0 \/ q = open + 2 THEN [ok |-> FALSE]
  ELSE IF colon > q + 1 /\ close3 > colon + 1
  THEN [ok |-> TRUE, g1 |-> Sub(token, open + 2, q - 1),
        g2 |-> Sub(token, q + 1, colon - 1),
        has3 |-> TRUE, g3 |-> Sub(token, colon + 1, close3 - 1)]
  ELSE IF close2 > 0
  THEN [ok |-> TRUE, g1 |-> Sub(token, open + 2, q - 1),
        g2 |-> Sub(token, q + 1, close2 - 1),
        has3 |-> FALSE, g3 |-> << >>]
  ELSE [ok |-> FALSE]

ConditionalMatchColon(token, open, q, colon) ==
  ConditionalGroups(token, open, q, colon,
    IF colon = 0 THEN 0 ELSE IndexOf(token, <<"}">>, colon + 1),
    IF q = 0 THEN 0
    ELSE LastClose(token, q + 2, IF colon = 0 THEN Len(token) ELSE colon - 1))

ConditionalMatchQuestion(token, open, q) ==
  ConditionalMatchColon(token, open, q,
                        IF q = 0 THEN 0 ELSE IndexOf(token, <<":">>, q + 1))

\* /\?\{([^?]+)\?([^:]+)(?::([^}]+))?}/.exec(token) tried at the "?{" at
\* position open: the groups, or ok = FALSE.  Group 1 ends at the first
\* "?"; group 2 is greedy and ends before the first ":" or before the "}"
\* that closes the match.
conditionalMatchAt(token, open) ==
  ConditionalMatchQuestion(token, open, IndexOf(token, <<"?">>, open + 2))

\* the expression matches at a "?{" at position p
ConditionalAt(token, p) ==
  StartsWithAt(token, p, <<"?", "{">>) /\ conditionalMatchAt(token, p).ok

\* /\?\{([^?]+)\?([^:]+)(?::([^}]+))?}/.exec(token): the match at the
\* leftmost "?{" at which the expression matches
conditionalMatch(token) ==
  IF \A p \in 1..Len(token) : ~ConditionalAt(token, p) THEN [ok |-> FALSE]
  ELSE conditionalMatchAt(token,
         CHOOSE p \in 1..Len(token) :
           ConditionalAt(token, p) /\ \A q \in 1..(p - 1) : ~ConditionalAt(token, q))

\* the token a ${...} piece is mapped to, for the identifier it names
VariableFragment(id) ==
  IF id.k # "ok" THEN id ELSE Ok([k |-> "var", id |-> id.v])

\* the token a ?{...} piece is mapped to, for the objects constructed from
\* its groups
ConditionalFragment(conditional, text1, text2, has3) ==
  IF conditional.k # "ok" THEN conditional
  ELSE IF text1.k # "ok" THEN text1
  ELSE IF text2.k # "ok" THEN text2
  ELSE Ok([k |-> "cond", c |-> conditional.v, a |-> text1.v, has3 |-> has3,
           b |-> text2.v])

RECURSIVE NewText(_, _, _, _)

\* the callback of map in the constructor of Text, for the matches vm and
\* cm of the two expressions on the token
Fragment(impl, token, vm, cm, defaultNamespace, context) ==
  CASE vm.first > 0 ->
         VariableFragment(parseIdentifier(Sub(token, vm.first, vm.last),
                                          defaultNamespace, "undefined"))
    [] cm.ok ->
         ConditionalFragment(NewConditional(impl, cm.g1, defaultNamespace, context),
                             NewText(impl, cm.g2, defaultNamespace, context),
                             IF cm.has3
                             THEN NewText(impl, cm.g3, defaultNamespace, context)
                             ELSE Ok(<< >>),
                             cm.has3)
    [] OTHER -> Ok([k |-> "lit", s |-> token])

\* pieces.map(...) from the i-th piece on: the tokens after those done, or
\* the way the first failing piece ends
RECURSIVE TextFragments(_, _, _, _, _, _)
TextFragments(impl, pieces, i, done, defaultNamespace, context) ==
  IF done.k # "ok" \/ i > Len(pieces) THEN done
  ELSE TextFragments(impl, pieces, i + 1,
                     Push(done, Fragment(impl, pieces[i], variableMatch(pieces[i]),
                                         conditionalMatch(pieces[i]),
                                         defaultNamespace, context)),
                     defaultNamespace, context)

\* new Text(str, variables, defaultNamespace, context)
NewText(impl, str, defaultNamespace, context) ==
  TextFragments(impl, TextSplit(str, Scan(1, << >>)), 1, Ok(<< >>),
                defaultNamespace, context)

RECURSIVE TextEvaluate(_, _)

\* token.evaluate() of a conditional token whose condition evaluated to cond
Branch(token, cond, store) ==
  IF cond.k # "ok" THEN cond
  ELSE IF Truthy(cond.v) THEN TextEvaluate(token.a, store)
  ELSE IF token.has3 THEN TextEvaluate(token.b, store)
  ELSE Ok(<< >>)

\* token.evaluate() with a check of the entry, as the evaluators of Action
\* and Conditional make it
TokenEvaluateChecked(token, store) ==
  CASE token.k = "lit" -> Ok(token.s)
    [] token.k = "var" ->
         IF Lookup(store, token.id) = Undefined
         THEN UsedBeforeAssignment(token.id)
         ELSE Ok(ToStr(store[token.id]))
    [] OTHER -> Branch(token, ConditionalEvaluate(token.c, store), store)

\* token.evaluate(), as join renders it
TokenEvaluate(token, store) ==
  CASE token.k = "lit" -> Ok(token.s)
    [] token.k = "var" -> Ok(ToStr(Lookup(store, token.id)))
    [] OTHER -> Branch(token, ConditionalEvaluate(token.c, store), store)

\* the string joined so far with the next piece, or the exception its
\* evaluation throws
Joined(done, piece) ==
  IF piece.k # "ok" THEN piece ELSE Ok(done.v \o piece.v)

\* this.tokens.map((token) => token.evaluate()).join('') from the i-th
\* token on
RECURSIVE TextJoin(_, _, _, _)
TextJoin(tokens, i, done, store) ==
  IF done.k # "ok" \/ i > Len(tokens) THEN done
  ELSE TextJoin(tokens, i + 1, Joined(done, TokenEvaluate(tokens[i], store)), store)

\* Text.evaluate()
TextEvaluate(tokens, store) == TextJoin(tokens, 1, Ok(<< >>), store)

(***************************************************************************)
(* State                                                                   *)
(***************************************************************************)
VARIABLES
  variables,   \* the VariableStore shared by every compiled object
  impl,        \* the copy of the variables module that is loaded
  source,      \* the string handed to the constructor under study
  reference,   \* the syntax tree the source string was written from
  compiled,    \* the outcome of the constructor
  outcome,     \* the outcome of the last evaluate()
  before,      \* the VariableStore when the last evaluate() started
  evals,       \* the number of evaluate() calls made
  pc,          \* the position of the program: "new", "compiled", "evaluated",
               \* "parsed", "split" or "halted" for a compiled object, and
               \* "loading", "loaded", "linked", "awaitAck", "awaitChoice",
               \* "returned", "exited" or "crashed" for main()
  engine,      \* the AdventureEngine: its adventures and its scenes
  files,       \* the adventure files of adventureDir
  loads,       \* the calls of loadFile and whether their file has been read
  main,        \* the local variables of runAdventure and getChoice
  console      \* the lines written since the last awaited input

engineVars == <<engine, files, loads, main, console>>

vars == <<variables, impl, source, reference, compiled, outcome, before, evals, pc,
          engine, files, loads, main, console>>

None == [k |-> "none"]

\* no engine has been constructed
EngineIdle ==
  /\ engine = None
  /\ files = << >>
  /\ loads = << >>
  /\ main = None
  /\ console = << >>

\* the namespace the constructors are given, as in the tests of variables.js
TestNamespace == <<"t", "e", "s", "t">>

TestId(name) == asIdentifier(TestNamespace, name)

(***************************************************************************)
(* Arithmetic expressions written from a grammar                           *)
(*   E ::= T | E + T | E - T     T ::= F | T * F | T / F | T % F           *)
(*   F ::= number | variable | ( E )                                       *)
(* so that the tree an expression is written from is its standard infix    *)
(* reading.                                                                *)
(***************************************************************************)
MaxOps == 2
MaxParens == 1

AtomTokens == {<<"2">>, <<"x">>}
AdditiveOps == {"+", "-"}
MultiplicativeOps == {"*", "/", "%"}

Atom(tok) == [k |-> "atom", tok |-> tok]
Paren(e) == [k |-> "paren", e |-> e]
Bin(op, l, r) == [k |-> "bin", op |-> op, l |-> l, r |-> r]

\* the expressions with exactly n operators and at most p levels of parentheses
RECURSIVE ExprE(_, _)
RECURSIVE ExprT(_, _)
RECURSIVE ExprF(_, _)
ExprF(n, p) ==
  (IF n = 0 THEN {Atom(a) : a \in AtomTokens} ELSE {})
    \cup (IF n >= 1 /\ p >= 1 THEN {Paren(e) : e \in ExprE(n, p - 1)} ELSE {})

ExprT(n, p) ==
  ExprF(n, p) \cup
    UNION {{Bin(op, l, r) : op \in MultiplicativeOps,
                            l \in ExprT(i, p), r \in ExprF(n - 1 - i, p)}
           : i \in 0..(n - 1)}

ExprE(n, p) ==
  ExprT(n, p) \cup
    UNION {{Bin(op, l, r) : op \in AdditiveOps,
                            l \in ExprE(i, p), r \in ExprT(n - 1 - i, p)}
           : i \in 0..(n - 1)}

RECURSIVE Unparse(_)
Unparse(e) ==
  CASE e.k = "atom" -> e.tok
    [] e.k = "paren" -> <<"(">> \o Unparse(e.e) \o <<")">>
    [] OTHER -> Unparse(e.l) \o <<e.op>> \o Unparse(e.r)

\* the variables an expression reads, as resolved identifiers
RECURSIVE ExprVars(_)
ExprVars(e) ==
  CASE e.k = "atom" -> (IF variableRegex(e.tok) THEN {TestId(e.tok)} ELSE {})
    [] e.k = "paren" -> ExprVars(e.e)
    [] OTHER -> ExprVars(e.l) \cup ExprVars(e.r)

\* the value of the tree: standard infix evaluation
RECURSIVE StdEval(_, _)
StdEval(e, store) ==
  CASE e.k = "atom" -> (IF variableRegex(e.tok) THEN Lookup(store, TestId(e.tok))
                        ELSE ParseNumber(e.tok))
    [] e.k = "paren" -> StdEval(e.e, store)
    [] OTHER -> ArithmeticApply(e.op, StdEval(e.l, store), StdEval(e.r, store))

\* the two expressions of the tests of variables.js: (7-2)*x+7 and x*3+1
TestExpressions ==
  {Bin("+", Bin("*", Paren(Bin("-", Atom(<<"7">>), Atom(<<"2">>))), Atom(<<"x">>)),
        Atom(<<"7">>)),
   Bin("+", Bin("*", Atom(<<"x">>), Atom(<<"3">>)), Atom(<<"1">>))}

\* the expressions of the tests and those of the grammar with at most ops
\* operators and parens levels of parentheses
WellFormedExpressions(ops, parens) ==
  TestExpressions \cup UNION {ExprE(n, parens) : n \in 0..ops}

\* the VariableStores an Action is evaluated in; the last has the key
\* undefinedVar-style, without namespace, of Test 9
ActionStores ==
  {EmptyStore,
   [n \in {TestId(<<"x">>)} |-> IntNum(4)],
   [n \in {TestId(<<"x">>)} |-> IntNum(2)],
   [n \in {TestId(<<"x">>)} |-> IntNum(0)],
   [n \in {<<"x">>} |-> IntNum(7)]}

(***************************************************************************)
(* Specification of one Action: construct it, then evaluate it             *)
(***************************************************************************)
\* the compound assignments x op= e, as in Test 3 (b+=3) and Test 6 (z/=4)
CompoundOps == {"+", "-", "*", "/"}

CompoundExpressions == ExprE(0, 0) \cup ExprE(1, 0)

Compound(op, e) == [k |-> "compound", target |-> <<"x">>, op |-> op, ast |-> e]

\* expressions outside the grammar: the parentheses are empty or do not
\* balance
ParenExpressions ==
  {<<"(", ")">>, <<"(">>, <<")">>, <<"(", "2">>, <<"2", ")">>, <<"(", "x">>,
   <<"(", "2", "+", "x">>, <<"2", "+", "x", ")">>, <<"(", "(", "2", ")">>,
   <<"(", "2", ")", ")">>}

Written(e) == [k |-> "written", target |-> <<"x">>, s |-> e]

UnparseAction(ref) ==
  CASE ref.k = "expr" -> <<"y", "=">> \o Unparse(ref.ast)
    [] ref.k = "compound" -> ref.target \o <<ref.op, "=">> \o Unparse(ref.ast)
    [] OTHER -> ref.target \o <<"=">> \o ref.s

ActionReferences(ops, parens) ==
  {[k |-> "expr", ast |-> e] : e \in WellFormedExpressions(ops, parens)}
    \cup {Compound(op, e) : op \in CompoundOps, e \in CompoundExpressions}
    \cup {Written(e) : e \in ParenExpressions}

InitAction ==
  /\ reference \in ActionReferences(MaxOps, MaxParens)
  /\ source = UnparseAction(reference)
  /\ variables \in ActionStores
  /\ impl = "variables.js"    \* class Action is the same in both copies
  /\ compiled = None
  /\ outcome = None
  /\ before = variables
  /\ evals = 0
  /\ pc = "new"
  /\ EngineIdle

MaxEvals == 2

\* new Action(source, variables, 'test', context) by the document model,
\* which always passes its ParserContext
ConstructAction ==
  /\ pc = "new"
  /\ reference.k \in {"expr", "compound", "written"}
  /\ compiled' = NewAction(source, TestNamespace, "ParserContext")
  /\ pc' = IF compiled'.k = "ok" THEN "compiled" ELSE "halted"
  /\ UNCHANGED engineVars
  /\ UNCHANGED <<variables, impl, source, reference, outcome, before, evals>>

\* action.evaluate()
EvaluateAction ==
  /\ pc \in {"compiled", "evaluated"}
  /\ reference.k \in {"expr", "compound", "written"}
  /\ evals < MaxEvals
  /\ \E r \in {ActionEvaluate(compiled.v, variables)} :
       /\ outcome' = r.outcome
       /\ variables' = r.store
  /\ before' = variables
  /\ evals' = evals + 1
  /\ pc' = "evaluated"
  /\ UNCHANGED engineVars
  /\ UNCHANGED <<impl, source, reference, compiled>>

NextAction == ConstructAction \/ EvaluateAction

SpecAction == InitAction /\ [][NextAction]_vars

\* the identifier an Action source string assigns to
ActionTarget == TestId(<<"y">>)

\* C1: for every well-formed arithmetic Action v = expr whose variables are
\* defined, evaluate() stores in v the value of expr under standard infix
\* evaluation (* / % bind tighter than + -, equal precedence associates to
\* the left)
C1_StandardInfix ==
  (/\ pc = "evaluated"
   /\ reference.k = "expr"
   /\ \A v \in ExprVars(reference.ast) : Lookup(before, v) # Undefined)
  => /\ outcome.k = "ok"
     /\ Lookup(variables, ActionTarget) = StdEval(reference.ast, before)

\* C19: for an Action x op= e with op in + - * /, evaluate() reads the
\* entry of x in the VariableStore and writes (old value op value of e);
\* when x has no entry the read is an undefined-variable error and no
\* entry for x is written
C19_CompoundAssignment ==
  (/\ pc = "evaluated"
   /\ reference.k = "compound"
   /\ \A v \in ExprVars(reference.ast) : Lookup(before, v) # Undefined)
  => IF Lookup(before, TestId(reference.target)) = Undefined
     THEN /\ outcome = UsedBeforeAssignment(TestId(reference.target))
          /\ variables = before
     ELSE /\ outcome.k = "ok"
          /\ variables =
               Assign(before, TestId(reference.target),
                      ArithmeticApply(reference.op,
                                      before[TestId(reference.target)],
                                      StdEval(reference.ast, before)))

\* C22: an identifier that has been written keeps a VariableStore entry:
\* no evaluation deletes an entry or leaves it reading as absent
\* (undefined), whatever expression a later assignment to it evaluates
C22_StoreMonotonicity ==
  [][\A n \in DOMAIN variables :
       variables[n] # Undefined => Lookup(variables', n) # Undefined]_vars

\* the depth of open parentheses after the first i characters of s never
\* goes below zero and ends at zero
RECURSIVE ParenDepth(_, _)
ParenDepth(s, i) ==
  IF i = 0 THEN 0
  ELSE ParenDepth(s, i - 1)
         + (IF s[i] = "(" THEN 1 ELSE IF s[i] = ")" THEN -1 ELSE 0)

Balanced(s) ==
  /\ \A i \in 1..Len(s) : ParenDepth(s, i) >= 0
  /\ ParenDepth(s, Len(s)) = 0

\* C26: compiling an Action expression whose parentheses do not balance, in
\* either direction, reports a parenthesis error through the diagnostic
\* channel at compile time, and no compiled evaluator holds a parenthesis
\* token
C26_UnbalancedParentheses ==
  (pc # "new" /\ reference.k = "written")
  => /\ ~Balanced(reference.s)
         => compiled = ThrowError("adventure", "Mismatched parentheses")
     /\ compiled.k = "ok"
         => \A i \in 1..Len(compiled.v.evaluator) :
              compiled.v.evaluator[i] \notin {SymTok(<<"(">>), SymTok(<<")">>)}

(***************************************************************************)
(* Conditions written from a grammar                                       *)
(*   O ::= A | O || A      A ::= P | A && P      P ::= atom | ( O )        *)
(*   atom ::= var=lo..hi | var=n                                           *)
(***************************************************************************)
MaxCondOps == 2
MaxCondParens == 1

\* var=lo..hi and var=n, with integer lo, hi and n
Range(var, lo, hi) == [k |-> "range", var |-> var, lo |-> lo, hi |-> hi]
Equal(var, n) == [k |-> "equal", var |-> var, lo |-> n, hi |-> n]

CondAtoms ==
  {Range(<<"x">>, 4, 7), Range(<<"y">>, -3, 5), Equal(<<"z">>, 1)}

RECURSIVE CondO(_, _)
RECURSIVE CondA(_, _)
RECURSIVE CondP(_, _)
CondP(n, p) ==
  (IF n = 0 THEN CondAtoms ELSE {})
    \cup (IF n >= 1 /\ p >= 1 THEN {Paren(e) : e \in CondO(n, p - 1)} ELSE {})

CondA(n, p) ==
  CondP(n, p) \cup
    UNION {{Bin("&&", l, r) : l \in CondA(i, p), r \in CondP(n - 1 - i, p)}
           : i \in 0..(n - 1)}

CondO(n, p) ==
  CondA(n, p) \cup
    UNION {{Bin("||", l, r) : l \in CondO(i, p), r \in CondA(n - 1 - i, p)}
           : i \in 0..(n - 1)}

\* the decimal text of an integer
IntToStr(i) == IF i < 0 THEN <<"-">> \o NatToStr(-i) ELSE NatToStr(i)

RECURSIVE UnparseCond(_)
UnparseCond(c) ==
  CASE c.k = "range" -> c.var \o <<"=">> \o IntToStr(c.lo) \o <<".", ".">> \o IntToStr(c.hi)
    [] c.k = "equal" -> c.var \o <<"=">> \o IntToStr(c.lo)
    [] c.k = "paren" -> <<"(">> \o UnparseCond(c.e) \o <<")">>
    [] OTHER -> UnparseCond(c.l) \o <<" ">> \o (IF c.op = "&&" THEN <<"&", "&">> ELSE <<"|", "|">>) \o <<" ">>
                  \o UnparseCond(c.r)

RECURSIVE CondVars(_)
CondVars(c) ==
  CASE c.k \in {"range", "equal"} -> {TestId(c.var)}
    [] c.k = "paren" -> CondVars(c.e)
    [] OTHER -> CondVars(c.l) \cup CondVars(c.r)

\* the meaning of a condition with short-circuit operators: "T", "F", or
\* "U" when an operand that is needed reads a variable without an entry
RECURSIVE CondMeaning(_, _)
CondMeaning(c, store) ==
  CASE c.k \in {"range", "equal"} ->
         LET v == Lookup(store, TestId(c.var))
         IN  IF v = Undefined THEN "U"
             ELSE IF ~NumLess(v, IntNum(c.lo)) /\ ~NumLess(IntNum(c.hi), v)
                  THEN "T" ELSE "F"
    [] c.k = "paren" -> CondMeaning(c.e, store)
    [] c.op = "&&" ->
         LET l == CondMeaning(c.l, store)
         IN  IF l = "T" THEN CondMeaning(c.r, store) ELSE l
    [] OTHER ->
         LET l == CondMeaning(c.l, store)
         IN  IF l = "F" THEN CondMeaning(c.r, store) ELSE l

\* the conditions of testConditionals in variables.js
TestConditions ==
  {Paren(Bin("||", Paren(Bin("&&", Range(<<"x">>, 4, 7), Range(<<"y">>, 12, 15))),
                   Equal(<<"z">>, 1))),
   Bin("||", Paren(Bin("&&", Range(<<"x">>, 4, 7), Range(<<"y">>, 12, 15))),
             Equal(<<"z">>, 1)),
   Paren(Bin("||", Paren(Bin("&&", Range(<<"x">>, 4, 6), Range(<<"y">>, 12, 15))),
                   Equal(<<"z">>, 1)))}

Conditions(ops, parens) ==
  TestConditions \cup UNION {CondO(n, parens) : n \in 0..ops}

\* a VariableStore with the given values of test:x, test:y and test:z, each
\* given as <<value>>, or as << >> to leave the variable without an entry
StoreXYZ(x, y, z) ==
  LET given == [n \in {<<"x">>, <<"y">>, <<"z">>} |->
                  CASE n = <<"x">> -> x [] n = <<"y">> -> y [] OTHER -> z]
      defined == {n \in DOMAIN given : given[n] # << >>}
  IN  [id \in {TestId(n) : n \in defined} |->
         IntNum(given[CHOOSE n \in defined : TestId(n) = id][1])]

ConditionalStores ==
  {StoreXYZ(x, y, z) : x \in {<< >>, <<3>>, <<5>>}, y \in {<< >>, <<0>>, <<13>>},
                       z \in {<< >>, <<1>>}}
    \cup {StoreXYZ(<<5>>, <<13>>, <<0>>), StoreXYZ(<<8>>, <<10>>, <<1>>),
          StoreXYZ(<<3>>, <<12>>, <<0>>)}

(***************************************************************************)
(* Conditions written from comparisons a op b and one-sided ranges         *)
(* var=lo.. and var=..hi, alone or combined without parentheses            *)
(***************************************************************************)
Cmp(a, op, b) == [k |-> "cmp", a |-> a, op |-> op, b |-> b]
From(var, lo) == [k |-> "from", var |-> var, lo |-> lo]
UpTo(var, hi) == [k |-> "upto", var |-> var, hi |-> hi]

ComparisonOperators ==
  {<<"=", "=">>, <<"<">>, <<"<", "=">>, <<">">>, <<">", "=">>}

\* one comparison of each operator, between numbers and variables
Comparisons ==
  {Cmp(a, op, b) : a \in {<<"x">>, <<"5">>}, op \in ComparisonOperators,
                   b \in {<<"y">>, <<"5">>}}

OneSidedRanges ==
  {From(<<"x">>, <<"4">>), UpTo(<<"x">>, <<"7">>), From(<<"y">>, <<"1", "2">>),
   UpTo(<<"y">>, <<"0">>)}

\* the comparisons the operators table of Conditional.createEvaluator has
TableComparisons ==
  {Cmp(<<"x">>, <<">", "=">>, <<"4">>), Cmp(<<"y">>, <<"<", "=">>, <<"1", "2">>),
   Cmp(<<"z">>, <<"=", "=">>, <<"1">>)}

\* A || B && C and A && B || C, as the grammar reads them
PrecedenceConditions ==
  {Bin("||", A, Bin("&&", B, C)) : A \in TableComparisons, B \in TableComparisons,
                                   C \in TableComparisons}
    \cup {Bin("||", Bin("&&", A, B), C) : A \in TableComparisons,
                                         B \in TableComparisons,
                                         C \in TableComparisons}

ComparisonConditions == Comparisons \cup OneSidedRanges \cup PrecedenceConditions

RECURSIVE UnparseComparison(_)
UnparseComparison(c) ==
  CASE c.k = "cmp" -> c.a \o c.op \o c.b
    [] c.k = "from" -> c.var \o <<"=">> \o c.lo \o <<".", ".">>
    [] c.k = "upto" -> c.var \o <<"=", ".", ".">> \o c.hi
    [] OTHER -> UnparseComparison(c.l) \o <<" ">>
                  \o (IF c.op = "&&" THEN <<"&", "&">> ELSE <<"|", "|">>) \o <<" ">>
                  \o UnparseComparison(c.r)

\* the variables an operand and a condition read
OperandVars(tok) == IF variableRegex(tok) THEN {TestId(tok)} ELSE {}

RECURSIVE ComparisonVars(_)
ComparisonVars(c) ==
  CASE c.k = "cmp" -> OperandVars(c.a) \cup OperandVars(c.b)
    [] c.k \in {"from", "upto"} -> {TestId(c.var)}
    [] OTHER -> ComparisonVars(c.l) \cup ComparisonVars(c.r)

\* the value of an operand: a number, or the entry of a variable
OperandValue(tok, store) ==
  IF variableRegex(tok) THEN Lookup(store, TestId(tok)) ELSE ParseNumber(tok)

\* the numeric relation a op b
Relation(op, a, b) ==
  CASE op = <<"=", "=">> -> NumEq(a, b)
    [] op = <<"<">> -> NumLess(a, b)
    [] op = <<"<", "=">> -> NumLess(a, b) \/ NumEq(a, b)
    [] op = <<">">> -> NumLess(b, a)
    [] OTHER -> NumLess(b, a) \/ NumEq(a, b)

\* whether a condition holds in a store where its variables have entries
RECURSIVE ComparisonHolds(_, _)
ComparisonHolds(c, store) ==
  CASE c.k = "cmp" -> Relation(c.op, OperandValue(c.a, store), OperandValue(c.b, store))
    [] c.k = "from" -> Relation(<<">", "=">>, OperandValue(c.var, store), ParseNumber(c.lo))
    [] c.k = "upto" -> Relation(<<"<", "=">>, OperandValue(c.var, store), ParseNumber(c.hi))
    [] c.op = "&&" -> ComparisonHolds(c.l, store) /\ ComparisonHolds(c.r, store)
    [] OTHER -> ComparisonHolds(c.l, store) \/ ComparisonHolds(c.r, store)

ConditionReferences(ops, parens) ==
  {[k |-> "cond", ast |-> c] : c \in Conditions(ops, parens)}
    \cup {[k |-> "comparison", ast |-> c] : c \in ComparisonConditions}

UnparseCondition(ref) ==
  IF ref.k = "cond" THEN UnparseCond(ref.ast) ELSE UnparseComparison(ref.ast)

(***************************************************************************)
(* Specification of one Conditional: construct it, then evaluate it        *)
(***************************************************************************)
InitConditional ==
  /\ reference \in ConditionReferences(MaxCondOps, MaxCondParens)
  /\ source = UnparseCondition(reference)
  /\ variables \in ConditionalStores
  /\ impl \in Implementations
  /\ compiled = None
  /\ outcome = None
  /\ before = variables
  /\ evals = 0
  /\ pc = "new"
  /\ EngineIdle

\* new Conditional(source, variables, 'test', context) by Option or Text
ConstructConditional ==
  /\ pc = "new"
  /\ reference.k \in {"cond", "comparison"}
  /\ compiled' = NewConditional(impl, source, TestNamespace, "ParserContext")
  /\ pc' = IF compiled'.k = "ok" THEN "compiled" ELSE "halted"
  /\ UNCHANGED engineVars
  /\ UNCHANGED <<variables, impl, source, reference, outcome, before, evals>>

\* conditional.evaluate()
EvaluateConditional ==
  /\ pc \in {"compiled", "evaluated"}
  /\ reference.k \in {"cond", "comparison"}
  /\ evals < MaxEvals
  /\ outcome' = ConditionalEvaluate(compiled.v, variables)
  /\ before' = variables
  /\ evals' = evals + 1
  /\ pc' = "evaluated"
  /\ UNCHANGED engineVars
  /\ UNCHANGED <<variables, impl, source, reference, compiled>>

NextConditional == ConstructConditional \/ EvaluateConditional

SpecConditional == InitConditional /\ [][NextConditional]_vars

\* C2: a Conditional written with ranges var=lo..hi (integer lo and hi),
\* combined with &&, || and parentheses, evaluates to true if and only if
\* the combination of lo <= value(var) <= hi holds
C2_RangeInclusive ==
  (/\ pc = "evaluated"
   /\ reference.k = "cond"
   /\ \A v \in CondVars(reference.ast) : Lookup(before, v) # Undefined)
  => outcome = Ok(Bool(CondMeaning(reference.ast, before) = "T"))

\* C3: evaluating L && R with L false, or L || R with L true, raises no
\* undefined-variable error for a variable that only R references
C3_ShortCircuit ==
  (/\ pc = "evaluated"
   /\ reference.k = "cond"
   /\ reference.ast.k = "bin"
   /\ \/ reference.ast.op = "&&" /\ CondMeaning(reference.ast.l, before) = "F"
      \/ reference.ast.op = "||" /\ CondMeaning(reference.ast.l, before) = "T")
  => ~(/\ outcome.k = "throw"
       /\ outcome.msg = "used before assignment"
       /\ outcome.id \in CondVars(reference.ast.r) \ CondVars(reference.ast.l))

\* the Conditional is written from comparisons and one-sided ranges, and
\* every variable it reads has an entry
ComparisonOfDefined ==
  /\ reference.k = "comparison"
  /\ \A v \in ComparisonVars(reference.ast) : Lookup(before, v) # Undefined

\* C23: a Conditional compiled from var=lo.. evaluates to true if and only
\* if value(var) >= lo, and one compiled from var=..hi if and only if
\* value(var) <= hi
C23_OneSidedRanges ==
  (pc = "evaluated" /\ ComparisonOfDefined /\ reference.ast.k \in {"from", "upto"})
  => outcome = Ok(Bool(ComparisonHolds(reference.ast, before)))

\* C24: for each operator op in ==, <, <=, >, >= and operands that are
\* numbers or defined variables, a Conditional compiled from a op b
\* compiles without error and evaluates to true if and only if the numeric
\* relation a op b holds
C24_ComparisonOperators ==
  (pc # "new" /\ ComparisonOfDefined /\ reference.ast.k = "cmp")
  => /\ compiled.k = "ok"
     /\ pc = "evaluated"
          => outcome = Ok(Bool(ComparisonHolds(reference.ast, before)))

InitEvaluators == InitAction \/ InitConditional

NextEvaluators == NextAction \/ NextConditional

SpecEvaluators == InitEvaluators /\ [][NextEvaluators]_vars

\* the evaluation just made had to read a variable without an entry
ReadsUndefined ==
  \/ /\ reference.k = "expr"
     /\ \E v \in ExprVars(reference.ast) : Lookup(before, v) = Undefined
  \/ /\ reference.k = "cond"
     /\ CondMeaning(reference.ast, before) = "U"

ReferenceVars ==
  IF reference.k = "expr" THEN ExprVars(reference.ast) ELSE CondVars(reference.ast)

Lit(str) == [k |-> "lit", s |-> str]
Interp(var) == [k |-> "interp", s |-> var]

\* an inline conditional ?{condition?textA|textB}, or ?{condition?textA}
\* when alternatives is empty and <<textB>> otherwise
Inline(c, a, alternatives) == [k |-> "cond", c |-> c, a |-> a, b |-> alternatives]

UnparsePart(part) ==
  CASE part.k = "lit" -> part.s
    [] part.k = "interp" -> <<"$", "{">> \o part.s \o <<"}">>
    [] OTHER -> <<"?", "{">> \o UnparseCond(part.c) \o <<"?">> \o part.a
                  \o (IF part.b = << >> THEN << >> ELSE <<"|">> \o part.b[1])
                  \o <<"}">>

RECURSIVE UnparseText(_)
UnparseText(parts) ==
  IF parts = << >> THEN << >>
  ELSE UnparsePart(Head(parts)) \o UnparseText(Tail(parts))

MaxParts == 2

InlineParts ==
  {Inline(c, <<"y", "e", "s">>, b) :
     c \in {Range(<<"x">>, 0, 12), Equal(<<"y">>, 5)},
     b \in {<< >>, << <<"n", "o">> >>}}

TextParts ==
  {Lit(<<"H", "P", " ">>), Lit(<<"!">>), Interp(<<"x">>), Interp(<<"y">>),
   Interp(<<"t", "e", "s", "t", ":", "x">>)} \cup InlineParts

\* no two literals follow each other: they would read as one
TextTemplates(parts) ==
  {t \in UNION {[1..n -> TextParts] : n \in 1..parts} :
     \A i \in 1..(Len(t) - 1) : ~(t[i].k = "lit" /\ t[i + 1].k = "lit")}

InterpolatedVars(parts) ==
  {parseIdentifier(parts[i].s, TestNamespace, "undefined").v :
     i \in {j \in 1..Len(parts) : parts[j].k = "interp"}}

TextStores ==
  {StoreXYZ(x, y, << >>) : x \in {<< >>, <<0>>, <<12>>, <<-3>>}, y \in {<< >>, <<5>>}}

InitText ==
  /\ \E t \in TextTemplates(MaxParts) :
       /\ reference = [k |-> "text", ast |-> t]
       /\ source = UnparseText(t)
  /\ variables \in TextStores
  /\ impl \in Implementations
  /\ compiled = None
  /\ outcome = None
  /\ before = variables
  /\ evals = 0
  /\ pc = "new"
  /\ EngineIdle

\* new Text(source, variables, 'test', context)
ConstructText ==
  /\ pc = "new"
  /\ reference.k = "text"
  /\ compiled' = NewText(impl, source, TestNamespace, "ParserContext")
  /\ pc' = IF compiled'.k = "ok" THEN "compiled" ELSE "halted"
  /\ UNCHANGED engineVars
  /\ UNCHANGED <<variables, impl, source, reference, outcome, before, evals>>

\* a text.evaluate() that keeps the string of its first call
EvaluateTextCached ==
  /\ pc \in {"compiled", "evaluated"}
  /\ reference.k = "text"
  /\ evals < MaxEvals
  /\ outcome' = IF evals > 0 THEN outcome ELSE TextEvaluate(compiled.v, variables)
  /\ before' = variables
  /\ evals' = evals + 1
  /\ pc' = "evaluated"
  /\ UNCHANGED engineVars
  /\ UNCHANGED <<variables, impl, source, reference, compiled>>

\* text.evaluate()
EvaluateText ==
  /\ pc \in {"compiled", "evaluated"}
  /\ reference.k = "text"
  /\ evals < MaxEvals
  /\ outcome' = TextEvaluate(compiled.v, variables)
  /\ before' = variables
  /\ evals' = evals + 1
  /\ pc' = "evaluated"
  /\ UNCHANGED engineVars
  /\ UNCHANGED <<variables, impl, source, reference, compiled>>

NextText == ConstructText \/ EvaluateText

SpecText == InitText /\ [][NextText]_vars

\* the template has an interpolation of a variable that has no entry
InterpolatesUndefined ==
  /\ reference.k = "text"
  /\ \A i \in 1..Len(reference.ast) : reference.ast[i].k # "cond"
  /\ \E v \in InterpolatedVars(reference.ast) : Lookup(before, v) = Undefined

RECURSIVE Rendering(_, _)
Rendering(parts, store) ==
  IF parts = << >> THEN << >>
  ELSE LET part == Head(parts)
           id == parseIdentifier(part.s, TestNamespace, "undefined").v
       IN  (IF part.k = "lit" THEN part.s
            ELSE IF Lookup(store, id) = Undefined THEN << >>
            ELSE ToStr(store[id]))
             \o Rendering(Tail(parts), store)

InlineConditionals ==
  /\ reference.k = "text"
  /\ \A i \in 1..Len(reference.ast) : reference.ast[i].k \in {"lit", "cond"}
  /\ \E i \in 1..Len(reference.ast) : reference.ast[i].k = "cond"
  /\ \A i \in 1..Len(reference.ast) :
       reference.ast[i].k = "cond"
         => \A v \in CondVars(reference.ast[i].c) : Lookup(before, v) # Undefined

\* textA when the condition is true, textB or the empty string when it is
\* false
InlineRendering(part, store) ==
  CASE part.k = "lit" -> part.s
    [] CondMeaning(part.c, store) = "T" -> part.a
    [] part.b = << >> -> << >>
    [] OTHER -> part.b[1]

RECURSIVE InlineRenderings(_, _)
InlineRenderings(parts, store) ==
  IF parts = << >> THEN << >>
  ELSE InlineRendering(Head(parts), store) \o InlineRenderings(Tail(parts), store)

\* C16: a Text compiled from ?{condition?textA|textB} renders textA when
\* the condition is true at render time and textB when it is false;
\* compiled from ?{condition?textA} it renders textA when true and the
\* empty string when false; the | is part of neither rendering
C16_InlineConditional ==
  (pc = "evaluated" /\ InlineConditionals)
  => outcome = Ok(InlineRenderings(reference.ast, before))

(***************************************************************************)
(* Specification of a compiled Text or Conditional that is evaluated again *)
(* while other code updates the VariableStore                              *)
(***************************************************************************)
MaxLazyOps == 1
MaxUpdates == 2

LazyReferences ==
  {[k |-> "text", ast |-> t] : t \in TextTemplates(MaxParts)}
    \cup {[k |-> "cond", ast |-> c] : c \in Conditions(MaxLazyOps, 0)}
    \cup {[k |-> "comparison", ast |-> c] : c \in Comparisons \cup OneSidedRanges}

LazyStores ==
  {EmptyStore, StoreXYZ(<<5>>, <<13>>, <<0>>), StoreXYZ(<<12>>, <<5>>, <<1>>),
   StoreXYZ(<<-3>>, << >>, <<1>>)}

InitLazy ==
  /\ reference \in LazyReferences
  /\ source = (IF reference.k = "text" THEN UnparseText(reference.ast)
               ELSE UnparseCondition(reference))
  /\ variables \in LazyStores
  /\ impl \in Implementations
  /\ compiled = None
  /\ outcome = None
  /\ before = variables
  /\ evals = 0
  /\ pc = "new"
  /\ engine = None
  /\ files = << >>
  /\ loads = << >>
  /\ main = [updates |-> 0]
  /\ console = << >>

\* between two evaluations other code writes the VariableStore: the
\* assignments of Action.evaluate() leave another store
UpdateStore ==
  /\ pc = "evaluated"
  /\ main.updates < MaxUpdates
  /\ \E store \in LazyStores \ {variables} : variables' = store
  /\ main' = [updates |-> main.updates + 1]
  /\ UNCHANGED <<impl, source, reference, compiled, outcome, before, evals, pc,
                 engine, files, loads, console>>

NextLazy == NextText \/ NextConditional \/ UpdateStore

SpecLazy == InitLazy /\ [][NextLazy]_vars

\* what evaluate() of a freshly compiled copy of the source string returns
\* in the store
FreshEvaluation(store) ==
  IF reference.k = "text"
  THEN TextEvaluate(NewText(impl, source, TestNamespace, "ParserContext").v, store)
  ELSE ConditionalEvaluate(NewConditional(impl, source, TestNamespace, "ParserContext").v,
                           store)

MaxIdLen == 4

IdChars == {"a", "x", ":"}

RawIdentifiers(len) == UNION {[1..n -> IdChars] : n \in 0..len}

Namespaces == {<<"n", "s">>, TestNamespace}

\* the callers of Identifier.parse: Option passes its ParserContext;
\* Action, Conditional, Text and Adventure.startingScene pass none
Callers == {"Option.target", "Adventure.startingScene", "Action.variableName"}

CallerContext(caller) ==
  IF caller = "Option.target" THEN "ParserContext" ELSE "undefined"

InitIdentifier ==
  /\ source \in RawIdentifiers(MaxIdLen)
  /\ \E ns \in Namespaces, caller \in Callers :
       reference = [k |-> "id", ns |-> ns, caller |-> caller]
  /\ variables = EmptyStore
  /\ impl = "variables.js"
  /\ compiled = None
  /\ outcome = None
  /\ before = variables
  /\ evals = 0
  /\ pc = "new"
  /\ EngineIdle

\* Identifier.parse(target, defaultNamespace, context) in the Option
\* constructor, Identifier.parse(startSceneName, name) in the Adventure
\* constructor
ParseIdentifier ==
  /\ pc = "new"
  /\ reference.k = "id"
  /\ reference.caller # "Action.variableName"
  /\ compiled' = parseIdentifier(source, reference.ns, CallerContext(reference.caller))
  /\ pc' = "parsed"
  /\ UNCHANGED engineVars
  /\ UNCHANGED <<variables, impl, source, reference, outcome, before, evals>>

\* new Action(source + '=1', ...): Identifier.parse(match[1].trim(),
\* defaultNamespace) on the left side of the assignment
ParseActionTarget ==
  /\ pc = "new"
  /\ reference.k = "id"
  /\ reference.caller = "Action.variableName"
  /\ \E action \in {NewAction(source \o <<"=", "1">>, reference.ns, "ParserContext")} :
       compiled' = IF action.k = "ok" THEN Ok(action.v.variableName) ELSE action
  /\ pc' = "parsed"
  /\ UNCHANGED engineVars
  /\ UNCHANGED <<variables, impl, source, reference, outcome, before, evals>>

\* Identifier.getNamespace and Identifier.getName of a parsed identifier
SplitIdentifier ==
  /\ pc = "parsed"
  /\ compiled.k = "ok"
  /\ outcome' = [namespace |-> getIdentifierNamespace(compiled.v),
                 name |-> getIdentifierName(compiled.v)]
  /\ pc' = "split"
  /\ UNCHANGED engineVars
  /\ UNCHANGED <<variables, impl, source, reference, compiled, before, evals>>

NextIdentifier == ParseIdentifier \/ ParseActionTarget \/ SplitIdentifier

SpecIdentifier == InitIdentifier /\ [][NextIdentifier]_vars

\* C6: parse(raw, ns) returns ns:raw for a raw string without a colon and
\* raw unchanged for a raw string with exactly one colon
C6_ParseIdentifier ==
  (pc = "parsed" /\ reference.k = "id")
  => /\ CountChar(source, ":") = 0
          => compiled = Ok(reference.ns \o <<":">> \o source)
     /\ CountChar(source, ":") = 1 => compiled = Ok(source)

\* parse("a:x", "ns") has returned "a:x"
C6_Witness ==
  /\ pc = "parsed"
  /\ source = <<"a", ":", "x">>
  /\ reference.ns = <<"n", "s">>
  /\ compiled = Ok(<<"a", ":", "x">>)

\* C7: for a raw string with more than one colon, parse ends in the
\* malformed-identifier error, for every caller
C7_MalformedIdentifier ==
  (pc = "parsed" /\ reference.k = "id" /\ CountChar(source, ":") > 1)
  => /\ compiled.k = "exit"
     /\ compiled.location = "identifier"
     /\ compiled.msg = "Malformed identifier"

(***************************************************************************)
(* Document model: Option, Scene, Adventure (src/unnamed/part_002)         *)
(***************************************************************************)
\* a field that the JSON document does not have (undefined)
Absent == <<"undefined">>

\* s.split(separatorRegex) with separatorRegex = /[,;]/
RECURSIVE SplitSeparators(_, _)
SplitSeparators(s, cur) ==
  IF s = << >> THEN <<cur>>
  ELSE IF Head(s) \in {",", ";"} THEN <<cur>> \o SplitSeparators(Tail(s), << >>)
  ELSE SplitSeparators(Tail(s), Append(cur, Head(s)))

\* the Actions of the strings, after those done
RECURSIVE NewActions(_, _, _, _)
NewActions(strings, done, defaultNamespace, context) ==
  IF strings = << >> \/ done.k # "ok" THEN done
  ELSE NewActions(Tail(strings),
                  Push(done, NewAction(Trim(StripChars(Head(strings), {" "})),
                                       defaultNamespace, context)),
                  defaultNamespace, context)

\* Action.parseActions(actions, variables, defaultNamespace, context)
parseActions(actions, defaultNamespace, context) ==
  IF actions = Absent \/ actions = << >> THEN Ok(<< >>)
  ELSE NewActions(SplitSeparators(actions, << >>), Ok(<< >>), defaultNamespace, context)

\* a target or startingScene field: the Identifier string the constructor
\* stores, the Scene the linker puts in its place, or undefined
IdentifierRef(id) == [kind |-> "identifier", id |-> id]
SceneRef(id) == [kind |-> "scene", id |-> id]
UndefinedRef == [kind |-> "undefined", id |-> << >>]

NoConditional == [evaluator |-> << >>]

\* the statements of the Option constructor, given what the constructors
\* and parsers it calls come to
OptionOf(json, context, label, target, condition, actions) ==
  IF json.label = Absent
  THEN ContextThrowError(context, "option", "label is a required field.")
  ELSE IF label.k # "ok" THEN label
  ELSE IF json.target = Absent \/ json.target = << >>
  THEN ContextThrowError(context, "option", "target is a required field.")
  ELSE IF target.k # "ok" THEN target
  ELSE IF condition.k # "ok" THEN condition
  ELSE IF actions.k # "ok" THEN actions
  ELSE Ok([label |-> label.v,
           target |-> IdentifierRef(target.v),
           hasCondition |-> json.condition # Absent /\ json.condition # << >>,
           condition |-> condition.v,
           actions |-> actions.v,
           alwaysVisible |-> json.alwaysVisible])

\* new Option(optionJSON, variableRegistry, defaultNamespace, context)
NewOption(implementation, json, defaultNamespace, context) ==
  OptionOf(json, context,
           NewText(implementation, json.label, defaultNamespace, context),
           parseIdentifier(json.target, defaultNamespace, context),
           IF json.condition = Absent \/ json.condition = << >>
           THEN Ok(NoConditional)
           ELSE NewConditional(implementation, json.condition,
                               defaultNamespace, context),
           parseActions(json.actions, defaultNamespace, context))

\* options.map((option) => new Option(...))
RECURSIVE NewOptions(_, _, _, _, _)
NewOptions(implementation, jsons, done, defaultNamespace, context) ==
  IF jsons = << >> \/ done.k # "ok" THEN done
  ELSE NewOptions(implementation, Tail(jsons),
                  Push(done, NewOption(implementation, Head(jsons),
                                       defaultNamespace, context)),
                  defaultNamespace, context)

\* content.map((line) => new Text(...))
RECURSIVE NewTexts(_, _, _, _, _)
NewTexts(implementation, strings, done, defaultNamespace, context) ==
  IF strings = << >> \/ done.k # "ok" THEN done
  ELSE NewTexts(implementation, Tail(strings),
                Push(done, NewText(implementation, Head(strings),
                                   defaultNamespace, context)),
                defaultNamespace, context)

\* a content field that the JSON document does not have
AbsentContent == <<Absent>>

\* the statements of the Scene constructor, given what the constructors and
\* parsers it calls come to
SceneOf(json, adventureName, context, title, content, actions, options) ==
  IF json.name = Absent \/ json.name = << >>
  THEN ContextThrowError(context, "scene", "name is a required field.")
  ELSE IF CountChar(json.name, ":") > 0
  THEN ContextThrowError(context, "scene", "name cannot contain a colon.")
  ELSE IF json.title = Absent \/ json.title = << >>
  THEN ContextThrowError(context, "scene", "title is a required field.")
  ELSE IF title.k # "ok" THEN title
  ELSE IF json.content = AbsentContent
  THEN ContextThrowError(context, "scene", "content is a required field.")
  ELSE IF Len(json.content) < 1
  THEN ContextThrowError(context, "scene", "invalid content")
  ELSE IF content.k # "ok" THEN content
  ELSE IF actions.k # "ok" THEN actions
  ELSE IF options.k # "ok" THEN options
  ELSE Ok([adventure |-> adventureName,
           name |-> json.name,
           title |-> title.v,
           content |-> content.v,
           identifier |-> << >>,
           actions |-> actions.v,
           options |-> options.v])

\* new Scene(sceneJSON, adventure, variableRegistry, context)
NewScene(implementation, json, adventureName, context) ==
  SceneOf(json, adventureName, context,
          NewText(implementation, json.title, adventureName, context),
          NewTexts(implementation, json.content, Ok(<< >>), adventureName, context),
          parseActions(json.actions, adventureName, context),
          NewOptions(implementation, json.options, Ok(<< >>), adventureName, context))

\* the scenes of a registry are kept in the order they were registered in,
\* each under its key, as Object.entries gives them
HasScene(registry, key) == \E i \in 1..Len(registry) : registry[i].key = key
SceneAt(registry, key) == registry[CHOOSE i \in 1..Len(registry) : registry[i].key = key]

\* one pass of the loop of the Adventure constructor: the scene is
\* constructed and registered under its identifier
RegisterScene(registry, adventureName, scene, context) ==
  IF registry.k # "ok" THEN registry
  ELSE IF scene.k # "ok" THEN scene
  ELSE IF HasScene(registry.v, asIdentifier(adventureName, scene.v.name))
  THEN ContextThrowError(context, "adventure", "Scene identifiers must be unique")
  ELSE Ok(Append(registry.v,
                 [key |-> asIdentifier(adventureName, scene.v.name),
                  scene |-> scene.v]))

\* the loop of the Adventure constructor that builds and registers the
\* scenes: the registry, or the first failure
RECURSIVE RegisterScenes(_, _, _, _, _)
RegisterScenes(implementation, jsons, adventureName, registry, context) ==
  IF jsons = << >> \/ registry.k # "ok" THEN registry
  ELSE RegisterScenes(implementation, Tail(jsons), adventureName,
                      RegisterScene(registry, adventureName,
                                    NewScene(implementation, Head(jsons),
                                             adventureName, context),
                                    context),
                      context)

isValidVersionNumber(versionNumber) == versionNumber = <<1>>

\* requires.split(separatorRegex).map(n => n.trim()).filter(n => n)
\*   .filter(n => n !== 'inkspire')
RECURSIVE RequiredNames(_)
RequiredNames(names) ==
  IF names = << >> THEN << >>
  ELSE (IF Trim(Head(names)) = << >>
           \/ Trim(Head(names)) = <<"i", "n", "k", "s", "p", "i", "r", "e">>
        THEN << >> ELSE <<Trim(Head(names))>>) \o RequiredNames(Tail(names))

\* the statements of the Adventure constructor, given what the
\* constructors and parsers it calls come to.  `!name && name.length`
\* reads .length of a missing field, which throws.  The version field is
\* <<n>> for the number n and << >> when it is missing.
AdventureOf(json, title, actions, startingScene, scenes) ==
  IF json.name = Absent
  THEN Throw("TypeError", "Cannot read properties of undefined")
  ELSE IF CountChar(json.name, ":") > 0
  THEN ThrowError("adventure", "name cannot contain a colon.")
  ELSE IF json.title = Absent
  THEN Throw("TypeError", "Cannot read properties of undefined")
  ELSE IF title.k # "ok" THEN title
  ELSE IF json.version = << >> \/ json.version = <<0>>
  THEN ThrowError("adventure", "version is a required field.")
  ELSE IF ~isValidVersionNumber(json.version)
  THEN ThrowError("adventure", "invalid version number")
  ELSE IF actions.k # "ok" THEN actions
  ELSE IF startingScene.k # "ok" THEN startingScene
  ELSE IF scenes.k # "ok" THEN scenes
  ELSE Ok([adventure |->
             [name |-> json.name,
              title |-> title.v,
              version |-> json.version,
              author |-> title.v,
              requires |-> IF json.requires = Absent \/ json.requires = << >>
                           THEN << >>
                           ELSE RequiredNames(SplitSeparators(json.requires, << >>)),
              actions |-> actions.v,
              hasGlobalTop |-> json.globalTop # Absent /\ json.globalTop # << >>,
              globalTop |-> title.v,
              hasGlobalBottom |-> json.globalBottom # Absent /\ json.globalBottom # << >>,
              globalBottom |-> title.v,
              startingScene |-> IdentifierRef(startingScene.v)],
           scenes |-> scenes.v])

\* new Adventure(json, sceneRegistry, variableRegistry): the Adventure and
\* the registry with its scenes, or the way the constructor ends
NewAdventure(implementation, json, sceneRegistry) ==
  AdventureOf(json,
              NewText(implementation, json.title, json.name, "ParserContext"),
              parseActions(json.actions, json.name, "ParserContext"),
              parseIdentifier(IF json.startingScene = Absent
                              THEN <<"s", "t", "a", "r", "t">> ELSE json.startingScene,
                              json.name, "undefined"),
              RegisterScenes(implementation, json.scenes, json.name,
                             Ok(sceneRegistry), "ParserContext"))

(***************************************************************************)
(* AdventureEngine (second half of src/src/identifiers.js)                 *)
(***************************************************************************)
INKSPIRE_NAMESPACE == <<"i", "n", "k", "s", "p", "i", "r", "e">>
MAX_RETURN_HISTORY == 16

\* actions.forEach((action) => action.evaluate()) from the state st, an
\* outcome and a store: the actions run in order until one throws, and the
\* store keeps what the earlier ones wrote
RECURSIVE EvaluateActions(_, _)
EvaluateActions(actions, st) ==
  IF actions = << >> \/ st.outcome.k # "ok" THEN st
  ELSE EvaluateActions(Tail(actions), ActionEvaluate(Head(actions), st.store))

\* the state actions start from
Running(store) == [outcome |-> Ok(Undefined), store |-> store]

\* the Adventure object engine.adventures[name]
HasAdventure(adventures, name) == \E i \in 1..Len(adventures) : adventures[i].name = name
AdventureNamed(adventures, name) ==
  adventures[CHOOSE i \in 1..Len(adventures) : adventures[i].name = name]

\* scene.identifier = identifier for the Scene registered under identifier
SetSceneIdentifier(scenes, identifier) ==
  [i \in 1..Len(scenes) |->
     IF scenes[i].key = identifier
     THEN [scenes[i] EXCEPT !.scene.identifier = identifier]
     ELSE scenes[i]]

SetPropertyOfUndefined == Throw("TypeError", "Cannot set properties of undefined")

\* one pass of the first loop of linkAdventures, for the a-th adventure,
\* whose load-time actions left acts.  A state of the linker is the engine,
\* the store and the outcome so far.
LinkStartingScene(st, a, acts, identifier) ==
  IF acts.outcome.k # "ok"
  THEN [st EXCEPT !.variables = acts.store, !.outcome = acts.outcome]
  ELSE IF ~HasScene(st.engine.scenes, identifier)
  THEN [engine |-> [st.engine EXCEPT !.adventures[a].startingScene = UndefinedRef],
        variables |-> acts.store,
        outcome |-> SetPropertyOfUndefined]
  ELSE [engine |-> [adventures |->
                      [st.engine.adventures EXCEPT
                         ![a].startingScene = SceneRef(identifier)],
                    scenes |-> SetSceneIdentifier(st.engine.scenes, identifier)],
        variables |-> acts.store,
        outcome |-> st.outcome]

\* the first loop with `adventure.actions.forEach(...)` run twice in a pass
RECURSIVE LinkStartingScenesTwice(_, _)
LinkStartingScenesTwice(st, a) ==
  IF a > Len(st.engine.adventures) \/ st.outcome.k # "ok" THEN st
  ELSE LinkStartingScenesTwice(
         LinkStartingScene(st, a,
                           EvaluateActions(st.engine.adventures[a].actions,
                             EvaluateActions(st.engine.adventures[a].actions,
                                             Running(st.variables))),
                           st.engine.adventures[a].startingScene.id),
         a + 1)

\* the first loop of linkAdventures, from adventure a on
RECURSIVE LinkStartingScenes(_, _)
LinkStartingScenes(st, a) ==
  IF a > Len(st.engine.adventures) \/ st.outcome.k # "ok" THEN st
  ELSE LinkStartingScenes(
         LinkStartingScene(st, a,
                           EvaluateActions(st.engine.adventures[a].actions,
                                           Running(st.variables)),
                           st.engine.adventures[a].startingScene.id),
         a + 1)

\* the pass without `option.target = scenes[identifier]`: the target stays
\* the Identifier string
LinkOptionSkipped(st, i, o, identifier) ==
  IF ~HasScene(st.engine.scenes, identifier)
  THEN [st EXCEPT !.outcome = SetPropertyOfUndefined]
  ELSE [st EXCEPT !.engine.scenes = SetSceneIdentifier(st.engine.scenes, identifier)]

\* one pass of the inner loop of the second loop of linkAdventures, for
\* option o of the i-th scene
LinkOption(st, i, o, identifier) ==
  IF ~HasScene(st.engine.scenes, identifier)
  THEN [st EXCEPT !.engine.scenes[i].scene.options[o].target = UndefinedRef,
                  !.outcome = SetPropertyOfUndefined]
  ELSE [st EXCEPT !.engine.scenes =
          SetSceneIdentifier(
            [st.engine.scenes EXCEPT ![i].scene.options[o].target = SceneRef(identifier)],
            identifier)]

\* the second loop of linkAdventures, from option o of the i-th scene on
RECURSIVE LinkOptions(_, _, _)
LinkOptions(st, i, o) ==
  IF i > Len(st.engine.scenes) \/ st.outcome.k # "ok" THEN st
  ELSE IF o > Len(st.engine.scenes[i].scene.options) THEN LinkOptions(st, i + 1, 1)
  ELSE LinkOptions(LinkOption(st, i, o, st.engine.scenes[i].scene.options[o].target.id),
                   i, o + 1)

\* engine.linkAdventures()
linkAdventures(eng, store) ==
  LinkOptions(LinkStartingScenes([engine |-> eng, variables |-> store,
                                  outcome |-> Ok(Undefined)], 1),
              1, 1)

(***************************************************************************)
(* runAdventure: the turn loop between two awaited inputs                  *)
(***************************************************************************)
\* FixedSizeStack of fixed-size-stack.js: the entries, oldest first
NewFixedSizeStack(capacity) == [capacity |-> capacity, items |-> << >>]

\* a push that keeps every entry
FixedSizeStackPushUnbounded(stack, item) ==
  [stack EXCEPT !.items = Append(@, item)]

\* history.push(item): pushing beyond the capacity discards the oldest entry
FixedSizeStackPush(stack, item) ==
  IF Len(stack.items) >= stack.capacity
  THEN [stack EXCEPT !.items = Append(Tail(@), item)]
  ELSE [stack EXCEPT !.items = Append(@, item)]

\* history.pop(): the most recent entry, undefined when there is none
FixedSizeStackPop(stack) ==
  IF stack.items = << >> THEN [value |-> UndefinedRef, stack |-> stack]
  ELSE [value |-> stack.items[Len(stack.items)],
        stack |-> [stack EXCEPT !.items = SubSeq(stack.items, 1, Len(stack.items) - 1)]]

UpperCase == <<"A", "B", "C", "D", "E", "F", "G", "H", "I", "J", "K", "L", "M",
               "N", "O", "P", "Q", "R", "S", "T", "U", "V", "W", "X", "Y", "Z">>
LowerCase == <<"a", "b", "c", "d", "e", "f", "g", "h", "i", "j", "k", "l", "m",
               "n", "o", "p", "q", "r", "s", "t", "u", "v", "w", "x", "y", "z">>

\* c.toLowerCase() for one character
toLowerCase(c) ==
  IF \E i \in 1..26 : UpperCase[i] = c
  THEN LowerCase[CHOOSE i \in 1..26 : UpperCase[i] = c]
  ELSE c

\* the lines runAdventure and getChoice write
YouFailed == <<"Y", "o", "u", " ", "f", "a", "i", "l", "e", "d">>
YouWin == <<"Y", "o", "u", " ", "w", "i", "n">>
ProgramTerminated == <<"P", "r", "o", "g", "r", "a", "m", " ", "t", "e", "r", "m", "i", "n", "a", "t", "e", "d">>
PressEnter == <<"P", "r", "e", "s", "s", " ", "e", "n", "t", "e", "r", " ", "t", "o", " ", "c", "o", "n", "t", "i", "n", "u", "e", ".", ".", ".">>
YouCould == <<"Y", "o", "u", " ", "c", "o", "u", "l", "d", ".", ".", ".">>
WhatDoYouDo == <<"W", "h", "a", "t", " ", "d", "o", " ", "y", "o", "u", " ", "d", "o", "?">>
NoAdventureNamed(adventureName) ==
  <<"F", "A", "I", "L", ":", " ", "N", "o", " ", "a", "d", "v", "e", "n", "t", "u", "r", "e", " ", "o", "f", " ", "n", "a", "m", "e", "d", " ">> \o adventureName \o <<" ", "i", "s", " ", "l", "o", "a", "d", "e", "d", ".">>
SelectOneOf(numOptions) ==
  <<"S", "e", "l", "e", "c", "t", " ", "o", "n", "e", " ", "o", "f", " ", "t", "h", "e", " ", "o", "p", "t", "i", "o", "n", "s", " ", "b", "y", " ", "e", "n", "t", "e", "r", "i", "n", "g", " ", "a", " ", "n", "u", "m", "b", "e", "r", " ", "f", "r", "o", "m", " ", "1", " ", "t", "o", " ">>
    \o NatToStr(numOptions) \o <<".">>
BlankLines == << << >>, << >>, << >>, << >>, << >>, << >>, << >>, << >>, << >>, << >>, << >> >>

\* the console while a handler runs: the lines written and the outcome so
\* far; nothing more is written once an exception is thrown
Writing(written) == [outcome |-> Ok(Undefined), written |-> written]

\* write(line) for the line a Text evaluates to, or the exception its
\* evaluation throws
WriteLine(w, prefix, line) ==
  IF w.outcome.k # "ok" THEN w
  ELSE IF line.k # "ok" THEN [w EXCEPT !.outcome = line]
  ELSE [w EXCEPT !.written = Append(w.written, prefix \o line.v)]

\* (text) && write(text.evaluate())
WriteText(w, present, text, store) ==
  IF ~present \/ w.outcome.k # "ok" THEN w
  ELSE WriteLine(w, << >>, TextEvaluate(text, store))

\* texts.map((text) => text.evaluate()): the strings after those done, or
\* the first failure
RECURSIVE EvaluateTexts(_, _, _)
EvaluateTexts(texts, done, store) ==
  IF texts = << >> \/ done.k # "ok" THEN done
  ELSE EvaluateTexts(Tail(texts), Push(done, TextEvaluate(Head(texts), store)), store)

\* lines.filter(Boolean)
RECURSIVE NonEmpty(_)
NonEmpty(lines) ==
  IF lines = << >> THEN << >>
  ELSE (IF Head(lines) = << >> THEN << >> ELSE <<Head(lines)>>) \o NonEmpty(Tail(lines))

\* lines.filter(Boolean).forEach((line) => write(line)) for the lines the
\* content evaluates to
WriteLines(w, lines) ==
  IF w.outcome.k # "ok" THEN w
  ELSE IF lines.k # "ok" THEN [w EXCEPT !.outcome = lines]
  ELSE [w EXCEPT !.written = w.written \o NonEmpty(lines.v)]

\* options.forEach((option, i) => write(prefix(i) + option.label.evaluate()))
\* for the options at the given indexes, from the i-th on; numbered says
\* whether the prefix is the number or the X of an unavailable option
RECURSIVE WriteLabels(_, _, _, _, _, _)
WriteLabels(w, options, indexes, i, numbered, store) ==
  IF i > Len(indexes) \/ w.outcome.k # "ok" THEN w
  ELSE WriteLabels(WriteLine(w, (IF numbered THEN NatToStr(i) ELSE <<"X">>) \o <<":", " ">>,
                             TextEvaluate(options[indexes[i]].label, store)),
                   options, indexes, i + 1, numbered, store)

\* one pass of options.forEach of the partition: option o goes to
\* availableOptions when it has no condition or its condition holds
PlaceOption(parts, o, holds) ==
  IF parts.k # "ok" THEN parts
  ELSE IF holds.k # "ok" THEN holds
  ELSE IF Truthy(holds.v)
  THEN Ok([parts.v EXCEPT !.availableOptions = Append(@, o)])
  ELSE Ok([parts.v EXCEPT !.unavailableOptions = Append(@, o)])

\* the partition of the options of a scene into availableOptions and
\* unavailableOptions (the indexes into options, in list order), or the
\* failure of the first condition that throws
RECURSIVE PartitionOptions(_, _, _, _)
PartitionOptions(options, o, parts, store) ==
  IF o > Len(options) \/ parts.k # "ok" THEN parts
  ELSE PartitionOptions(options, o + 1,
                        PlaceOption(parts, o,
                                    IF options[o].hasCondition
                                    THEN ConditionalEvaluate(options[o].condition, store)
                                    ELSE Ok(Bool(TRUE))),
                        store)

NoOptions == Ok([availableOptions |-> << >>, unavailableOptions |-> << >>])

\* unavailableOptions.filter((option) => option.alwaysVisible)
RECURSIVE AlwaysVisible(_, _)
AlwaysVisible(options, indexes) ==
  IF indexes = << >> THEN << >>
  ELSE (IF options[Head(indexes)].alwaysVisible THEN <<Head(indexes)>> ELSE << >>)
         \o AlwaysVisible(options, Tail(indexes))

\* where a run of the loop stops: at an awaited input, or for good
Stopped(at, result, store, written, currentScene, availableOptions, numOptions, history) ==
  [pc |-> at, outcome |-> result, variables |-> store, console |-> written,
   currentScene |-> currentScene, availableOptions |-> availableOptions,
   numOptions |-> numOptions, history |-> history]

\* an uncaught exception ends the process
Crashed(result, store, written, currentScene, history) ==
  Stopped("crashed", result, store, written, currentScene, << >>, 0, history)

\* the branch options.length === 1 of the loop body, after the writes w:
\* the label is written as a fixed prompt and an acknowledgement is awaited
PromptOne(currentScene, store, history, w, label) ==
  IF w.outcome.k # "ok"
  THEN Crashed(w.outcome, store, w.written, currentScene, history)
  ELSE IF label.k # "ok"
  THEN Crashed(label, store, w.written, currentScene, history)
  ELSE Stopped("awaitAck", Ok(Undefined), store,
               (IF label.v = << >> THEN w.written
                ELSE Append(w.written, <<"Y", "o", "u", " ">> \o <<toLowerCase(Head(label.v))>>
                                         \o Tail(label.v)))
                 \o <<PressEnter>>,
               currentScene, << >>, 1, history)

\* getChoice(options.length) up to its first await, after the writes w of
\* the menu
AwaitChoice(currentScene, numOptions, availableOptions, store, history, w) ==
  IF w.outcome.k # "ok"
  THEN Crashed(w.outcome, store, w.written, currentScene, history)
  ELSE Stopped("awaitChoice", Ok(Undefined), store, Append(w.written, WhatDoYouDo),
               currentScene, availableOptions, numOptions, history)

\* the other branch of the loop body, after the writes w: the options are
\* partitioned into parts, the available ones are written under the numbers
\* 1, 2, ... and the unavailable ones that are alwaysVisible under an X
Menu(currentScene, options, store, history, w, parts) ==
  IF w.outcome.k # "ok"
  THEN Crashed(w.outcome, store, w.written, currentScene, history)
  ELSE IF parts.k # "ok"
  THEN Crashed(parts, store, w.written, currentScene, history)
  ELSE AwaitChoice(currentScene, Len(options), parts.v.availableOptions, store, history,
         WriteLine(
           WriteLabels(
             WriteLabels(Writing(w.written \o << << >>, YouCould >>),
                         options, parts.v.availableOptions, 1, TRUE, store),
             options, AlwaysVisible(options, parts.v.unavailableOptions), 1, FALSE, store),
           << >>, Ok(<< >>)))

\* the writes of the loop body for a scene: the blank lines, the title,
\* globalTop, the content and globalBottom
SceneWrites(scene, adventure, store, written) ==
  WriteText(
    WriteLines(
      WriteText(
        WriteText(Writing(written \o BlankLines), TRUE, scene.title, store),
        adventure.hasGlobalTop, adventure.globalTop, store),
      EvaluateTexts(scene.content, Ok(<< >>), store)),
    adventure.hasGlobalBottom, adventure.globalBottom, store)

\* the loop body with `actions.forEach((action) => action.evaluate())` run
\* once more before the writes
RenderSceneTwice(currentScene, scene, adventure, acts, history, written) ==
  IF EvaluateActions(scene.actions, acts).outcome.k # "ok"
  THEN Crashed(EvaluateActions(scene.actions, acts).outcome,
               EvaluateActions(scene.actions, acts).store, written, currentScene, history)
  ELSE IF Len(scene.options) = 1
  THEN PromptOne(currentScene, EvaluateActions(scene.actions, acts).store, history,
                 SceneWrites(scene, adventure, EvaluateActions(scene.actions, acts).store,
                             written),
                 TextEvaluate(scene.options[1].label,
                              EvaluateActions(scene.actions, acts).store))
  ELSE Menu(currentScene, scene.options, EvaluateActions(scene.actions, acts).store,
            history,
            SceneWrites(scene, adventure, EvaluateActions(scene.actions, acts).store,
                        written),
            PartitionOptions(scene.options, 1, NoOptions,
                             EvaluateActions(scene.actions, acts).store))

\* one pass of the loop body of runAdventure for a scene that is not a
\* control scene, whose entry actions left acts, up to the input it awaits
RenderScene(currentScene, scene, adventure, acts, history, written) ==
  IF acts.outcome.k # "ok"
  THEN Crashed(acts.outcome, acts.store, written, currentScene, history)
  ELSE IF Len(scene.options) = 1
  THEN PromptOne(currentScene, acts.store, history,
                 SceneWrites(scene, adventure, acts.store, written),
                 TextEvaluate(scene.options[1].label, acts.store))
  ELSE Menu(currentScene, scene.options, acts.store, history,
            SceneWrites(scene, adventure, acts.store, written),
            PartitionOptions(scene.options, 1, NoOptions, acts.store))

ReadPropertyOfUndefined == Throw("TypeError", "Cannot read properties of undefined")

\* the loop of runAdventure from its top, with currentScene the value of
\* the variable of that name, until it awaits an input or ends
RECURSIVE RunLoop(_, _, _, _, _)

\* the loop body without the cases fail and pass of the switch: the two
\* control scenes are entered and rendered like any other scene
RunSceneRendered(eng, currentScene, scene, namespace, store, history, written) ==
  IF namespace.k # "ok"
  THEN Crashed(namespace, store, written, currentScene, history)
  ELSE IF namespace.v = INKSPIRE_NAMESPACE /\ scene.name = <<"s", "w", "i", "t", "c", "h">>
  THEN Crashed(Throw("Error", "Not implemented"), store, written, currentScene, history)
  ELSE IF namespace.v = INKSPIRE_NAMESPACE /\ scene.name = <<"e", "x", "i", "t">>
  THEN Stopped("exited", Ok(Undefined), store, Append(written, ProgramTerminated),
               currentScene, << >>, 0, history)
  ELSE IF namespace.v = INKSPIRE_NAMESPACE /\ scene.name = <<"b", "a", "c", "k">>
  THEN RunLoop(eng, FixedSizeStackPop(history).value, store,
               FixedSizeStackPop(history).stack, written)
  ELSE RenderScene(currentScene, scene,
                   AdventureNamed(eng.adventures, scene.adventure),
                   EvaluateActions(scene.actions, Running(store)),
                   history, written)

\* the loop body for the Scene currentScene refers to, whose identifier has
\* the given namespace
RunScene(eng, currentScene, scene, namespace, store, history, written) ==
  IF namespace.k # "ok"
  THEN Crashed(namespace, store, written, currentScene, history)
  ELSE IF namespace.v = INKSPIRE_NAMESPACE /\ scene.name = <<"s", "w", "i", "t", "c", "h">>
  THEN Crashed(Throw("Error", "Not implemented"), store, written, currentScene, history)
  ELSE IF namespace.v = INKSPIRE_NAMESPACE /\ scene.name = <<"f", "a", "i", "l">>
  THEN Stopped("returned", Ok(Undefined), store, Append(written, YouFailed),
               currentScene, << >>, 0, history)
  ELSE IF namespace.v = INKSPIRE_NAMESPACE /\ scene.name = <<"p", "a", "s", "s">>
  THEN Stopped("returned", Ok(Undefined), store, Append(written, YouWin),
               currentScene, << >>, 0, history)
  ELSE IF namespace.v = INKSPIRE_NAMESPACE /\ scene.name = <<"e", "x", "i", "t">>
  THEN Stopped("exited", Ok(Undefined), store, Append(written, ProgramTerminated),
               currentScene, << >>, 0, history)
  ELSE IF namespace.v = INKSPIRE_NAMESPACE /\ scene.name = <<"b", "a", "c", "k">>
  THEN RunLoop(eng, FixedSizeStackPop(history).value, store,
               FixedSizeStackPop(history).stack, written)
  ELSE RenderScene(currentScene, scene,
                   AdventureNamed(eng.adventures, scene.adventure),
                   EvaluateActions(scene.actions, Running(store)),
                   history, written)

RunLoop(eng, currentScene, store, history, written) ==
  IF currentScene.kind # "scene"
  THEN Crashed(ReadPropertyOfUndefined, store, written, currentScene, history)
  ELSE RunScene(eng, currentScene, SceneAt(eng.scenes, currentScene.id).scene,
                getIdentifierNamespace(SceneAt(eng.scenes, currentScene.id).scene.identifier),
                store, history, written)

\* engine.runAdventure(adventureName) up to the first input it awaits
runAdventure(eng, adventureName, store) ==
  IF ~HasAdventure(eng.adventures, adventureName)
  THEN Stopped("returned", Ok(Undefined), store, <<NoAdventureNamed(adventureName)>>,
               UndefinedRef, << >>, 0, NewFixedSizeStack(MAX_RETURN_HISTORY))
  ELSE RunLoop(eng, AdventureNamed(eng.adventures, adventureName).startingScene,
               store, NewFixedSizeStack(MAX_RETURN_HISTORY), << >>)

\* Number(response) for a trimmed input line: the empty string is 0, a
\* decimal numeral is its value, anything else is NaN
Number(response) ==
  IF response = << >> THEN Zero(1)
  ELSE IF numberRegex(response) THEN ParseNumber(response)
  ELSE IF Head(response) = "-" /\ numberRegex(Tail(response))
  THEN Neg(ParseNumber(Tail(response)))
  ELSE NaN

\* the validation of getChoice: the line is refused
ChoiceRefused(choice, numOptions) ==
  \/ IsNaN(choice)
  \/ NumLess(choice, IntNum(1))
  \/ NumLess(IntNum(numOptions), choice)

\* the loop goes on at the target of the option taken, whose actions left
\* acts; current is the value of currentScene while they ran
Continue(eng, target, acts, history, current) ==
  IF acts.outcome.k # "ok"
  THEN Crashed(acts.outcome, acts.store, << >>, current, history)
  ELSE RunLoop(eng, target, acts.store, history, << >>)

\* the resumption of runAdventure after the acknowledgement of a scene
\* with one option
TakeOnlyOption(eng, m, store, option) ==
  Continue(eng, option.target, EvaluateActions(option.actions, Running(store)),
           m.history, option.target)

Acknowledged(eng, m, store) ==
  TakeOnlyOption(eng, m, store, SceneAt(eng.scenes, m.currentScene.id).scene.options[1])

\* const chosenOption = availableOptions[response - 1] and the rest of the
\* loop body
TakeOption(eng, m, store, chosenOption) ==
  Continue(eng, chosenOption.target,
           EvaluateActions(chosenOption.actions, Running(store)),
           m.history, m.currentScene)

\* the resumption with `const chosenOption = options[response - 1]`: the
\* number is read as an index into all options of the scene
ChoiceOfAllOptions(eng, m, store, choice) ==
  IF ChoiceRefused(choice, m.numOptions)
  THEN Stopped("awaitChoice", Ok(Undefined), store,
               <<SelectOneOf(m.numOptions), WhatDoYouDo>>,
               m.currentScene, m.availableOptions, m.numOptions, m.history)
  ELSE IF ~(IsFinite(choice) /\ choice.d = 1)
  THEN Crashed(ReadPropertyOfUndefined, store, << >>, m.currentScene, m.history)
  ELSE TakeOption(eng, m, store,
         SceneAt(eng.scenes, m.currentScene.id).scene.options[choice.n])

\* the resumption of getChoice and runAdventure after a line was read, for
\* the number choice the line stands for
Choice(eng, m, store, choice) ==
  IF ChoiceRefused(choice, m.numOptions)
  THEN Stopped("awaitChoice", Ok(Undefined), store,
               <<SelectOneOf(m.numOptions), WhatDoYouDo>>,
               m.currentScene, m.availableOptions, m.numOptions, m.history)
  ELSE IF ~(IsFinite(choice) /\ choice.d = 1 /\ choice.n <= Len(m.availableOptions))
  THEN Crashed(ReadPropertyOfUndefined, store, << >>, m.currentScene, m.history)
  ELSE TakeOption(eng, m, store,
         SceneAt(eng.scenes, m.currentScene.id).scene.options[m.availableOptions[choice.n]])

Chosen(eng, m, store, line) == Choice(eng, m, store, Number(Trim(line)))

(***************************************************************************)
(* The engine at work: main() loads adventures/adventure.json and what it  *)
(* requires, links, and runs the adventure named adventure                 *)
(***************************************************************************)
OptionJSON(label, target, condition, alwaysVisible, actions) ==
  [label |-> label, target |-> target, condition |-> condition,
   alwaysVisible |-> alwaysVisible, actions |-> actions]

SceneJSON(title, name, actions, content, options) ==
  [title |-> title, name |-> name, actions |-> actions, content |-> content,
   options |-> options]

\* the document the constructor of AdventureEngine loads
InkspireJSON ==
  [title |-> <<"I", "n", "k", "s", "p", "i", "r", "e", " ", "S", "y", "s", "t", "e", "m">>,
   name |-> INKSPIRE_NAMESPACE,
   version |-> <<1>>,
   requires |-> Absent,
   actions |-> Absent,
   globalTop |-> Absent,
   globalBottom |-> Absent,
   startingScene |-> <<"e", "x", "i", "t">>,
   scenes |-> <<
     SceneJSON(<<"U", "n", "f", "i", "n", "i", "s", "h", "e", "d", " ", "S", "w", "i", "t", "c", "h", " ", "S", "c", "e", "n", "e">>,
               <<"s", "w", "i", "t", "c", "h">>, Absent, <<<<"T", "O", "D", "O">>>>, << >>),
     SceneJSON(<<"U", "n", "f", "i", "n", "i", "s", "h", "e", "d", " ", "F", "a", "i", "l", " ", "S", "c", "e", "n", "e">>,
               <<"f", "a", "i", "l">>, Absent, <<<<"T", "O", "D", "O">>>>, << >>),
     SceneJSON(<<"U", "n", "f", "i", "n", "i", "s", "h", "e", "d", " ", "C", "o", "m", "p", "l", "e", "t", "i", "o", "n", " ", "S", "c", "e", "n", "e">>,
               <<"p", "a", "s", "s">>, Absent, <<<<"T", "O", "D", "O">>>>, << >>),
     SceneJSON(<<"U", "n", "f", "i", "n", "i", "s", "h", "e", "d", " ", "E", "x", "i", "t", " ", "S", "c", "e", "n", "e">>,
               <<"e", "x", "i", "t">>, Absent, <<<<"T", "O", "D", "O">>>>, << >>),
     SceneJSON(<<"U", "n", "f", "i", "n", "i", "s", "h", "e", "d", " ", "B", "a", "c", "k", " ", "S", "c", "e", "n", "e">>,
               <<"b", "a", "c", "k">>, Absent, <<<<"T", "O", "D", "O">>>>, << >>) >>]

\* the name main() runs, and the file it loads first
MainAdventure == <<"a", "d", "v", "e", "n", "t", "u", "r", "e">>

\* the options the scenes of the documents are written from
GoOption ==
  OptionJSON(<<"G", "o">>, <<"b">>, Absent, FALSE, <<"g", "=", "1">>)
WinOption ==
  OptionJSON(<<"W", "i", "n">>, <<"i", "n", "k", "s", "p", "i", "r", "e", ":", "p", "a", "s", "s">>, <<"g", "=", "1">>, TRUE, Absent)
BackOption ==
  OptionJSON(<<"B", "a", "c", "k">>, <<"i", "n", "k", "s", "p", "i", "r", "e", ":", "b", "a", "c", "k">>, Absent, FALSE, Absent)
FailOption ==
  OptionJSON(<<"F", "a", "i", "l">>, <<"i", "n", "k", "s", "p", "i", "r", "e", ":", "f", "a", "i", "l">>, Absent, FALSE, <<"g", "=", "2">>)
LostOption ==
  OptionJSON(<<"L", "o", "s", "t">>, <<"n", "o", "w", "h", "e", "r", "e">>, Absent, FALSE, Absent)
HideOption ==
  OptionJSON(<<"H", "i", "d", "e", " ", "$", "{", "g", "}">>, <<"a", "d", "v", "e", "n", "t", "u", "r", "e", ":", "s", "t", "a", "r", "t">>, <<"g", "<", "=", "0">>, FALSE,
             <<"g", "=", "0">>)
OptionPool == {GoOption, WinOption, LostOption, HideOption}

MaxOptions == 3

\* the lists of at most n options of the pool
RECURSIVE OptionLists(_)
OptionLists(n) ==
  IF n = 0 THEN {<< >>}
  ELSE OptionLists(n - 1)
         \cup {Append(l, o) : l \in {m \in OptionLists(n - 1) : Len(m) = n - 1},
                              o \in OptionPool}

\* adventures/adventure.json
MainJSON(requires, actions, startingScene, startActions, startOptions, bOption) ==
  [title |-> <<"T", "o", "p", " ", "$", "{", "g", "}">>,
   name |-> MainAdventure,
   version |-> <<1>>,
   requires |-> requires,
   actions |-> actions,
   globalTop |-> <<"t", "o", "p">>,
   globalBottom |-> Absent,
   startingScene |-> startingScene,
   scenes |-> <<
     SceneJSON(<<"S", "t", "a", "r", "t">>, <<"s", "t", "a", "r", "t">>, startActions,
               <<<<"H", "P", " ", "$", "{", "g", "}">>>>, startOptions),
     SceneJSON(<<"B">>, <<"b">>, Absent, <<<<"I", "n", " ", "b">>>>, <<bOption>>) >>]

\* adventures/c.json, which requires the adventure that requires it
OtherJSON(actions) ==
  [title |-> <<"C">>,
   name |-> <<"c">>,
   version |-> <<1>>,
   requires |-> MainAdventure,
   actions |-> actions,
   globalTop |-> Absent,
   globalBottom |-> Absent,
   startingScene |-> <<"s">>,
   scenes |-> <<
     SceneJSON(<<"S">>, <<"s">>, Absent, <<<<"s">>>>,
               <<OptionJSON(<<"O", "n">>, <<"a", "d", "v", "e", "n", "t", "u", "r", "e", ":", "s", "t", "a", "r", "t">>,
                            Absent, FALSE, Absent)>>) >>]

HasFile(fs, name) == \E i \in 1..Len(fs) : fs[i].name = name
FileNamed(fs, name) == fs[CHOOSE i \in 1..Len(fs) : fs[i].name = name].json

\* the lines a player may enter
InputLines == {<< >>, <<"1">>, <<"2">>, <<"3">>, <<"x">>, <<" ", "2", " ">>}

MaxTurns == 3

\* a load-time action of c.json that counts in a variable of the main
\* adventure: adventure:g+=1
CountLoad == MainAdventure \o <<":", "g", "+", "=", "1">>

\* an entry action of the start scene that counts its entries in g: g+=1
CountEntry == <<"g", "+", "=", "1">>

\* what varies between the adventure directories, besides the options:
\* requires, load-time actions and startingScene of adventure.json, the
\* entry actions of its start scene, and the load-time actions of c.json
Setting(requires, actions, startingScene, startActions, otherActions) ==
  [requires |-> requires, actions |-> actions, startingScene |-> startingScene,
   startActions |-> startActions, otherActions |-> otherActions]

Settings ==
  {Setting(shape[1], actions, shape[2], Absent, Absent) :
     shape \in {<<Absent, Absent>>, <<Absent, <<"c", ":", "s">> >>,
                <<(<<"c">>), <<"c", ":", "s">> >>,
                <<(<<"c", ",", "c">>), Absent>>},
     actions \in {Absent, <<"g", "=", "0">>}}
    \cup {Setting(<<"c">>, <<"g", "=", "0">>, <<"c", ":", "s">>, Absent, CountLoad),
          Setting(Absent, <<"g", "=", "0">>, Absent, CountEntry, Absent)}

\* the adventure directories main() may find
Directories(options) ==
  {<<[name |-> MainAdventure,
      json |-> MainJSON(setting.requires, setting.actions, setting.startingScene,
                        setting.startActions, startOptions, bOption)],
     [name |-> <<"c">>, json |-> OtherJSON(setting.otherActions)]>> :
     setting \in Settings,
     startOptions \in OptionLists(options),
     bOption \in {WinOption, HideOption, BackOption, FailOption}}

\* the engine new AdventureEngine(...) leaves, for each copy of the
\* variables module
EngineOf(inkspire) ==
  [adventures |-> <<inkspire.v.adventure>>, scenes |-> inkspire.v.scenes]

NewAdventureEngine ==
  [i \in Implementations |-> EngineOf(NewAdventure(i, InkspireJSON, << >>))]

\* the state after new AdventureEngine(...) and the call of
\* engine.loadFile('adventures/adventure.json') in main()
InitEngine ==
  /\ impl \in Implementations
  /\ files \in Directories(MaxOptions)
  /\ engine = NewAdventureEngine[impl]
  /\ variables = EmptyStore
  /\ loads = <<[name |-> MainAdventure, read |-> FALSE]>>
  /\ main = [currentScene |-> UndefinedRef, availableOptions |-> << >>,
             numOptions |-> 0, history |-> NewFixedSizeStack(MAX_RETURN_HISTORY),
             turns |-> 0, response |-> << >>]
  /\ console = << >>
  /\ pc = "loading"
  /\ outcome = None
  /\ before = EmptyStore
  /\ source = << >>
  /\ reference = None
  /\ compiled = None
  /\ evals = 0

\* the calls of loadFile a loaded adventure starts:
\* requires.filter(n => !adventures.hasOwnProperty(n)).map(loadFile)
RECURSIVE RequiredLoads(_, _)
RequiredLoads(requires, adventures) ==
  IF requires = << >> THEN << >>
  ELSE (IF HasAdventure(adventures, Head(requires)) THEN << >>
        ELSE <<[name |-> Head(requires), read |-> FALSE]>>)
         \o RequiredLoads(Tail(requires), adventures)

\* loadAdventure(adventure) for an adventure whose name is taken:
\* console.error and process.exit()
AlreadyLoaded == [k |-> "exit", location |-> "engine", msg |-> "already loaded"]

\* the rest of loadFile for the l-th call once the Adventure is constructed:
\* loadAdventure, and the files it requires are asked for
LoadAdventure(l, adventure) ==
  IF adventure.k # "ok"
  THEN /\ outcome' = adventure
       /\ pc' = IF adventure.k = "exit" THEN "exited" ELSE "crashed"
       /\ UNCHANGED <<engine, loads>>
  ELSE IF HasAdventure(engine.adventures, adventure.v.adventure.name)
  THEN /\ outcome' = AlreadyLoaded
       /\ pc' = "exited"
       /\ engine' = [engine EXCEPT !.scenes = adventure.v.scenes]
       /\ UNCHANGED loads
  ELSE /\ outcome' = Ok(Undefined)
       /\ engine' = [adventures |-> Append(engine.adventures, adventure.v.adventure),
                     scenes |-> adventure.v.scenes]
       /\ loads' = [loads EXCEPT ![l].read = TRUE]
                     \o RequiredLoads(adventure.v.adventure.requires, engine'.adventures)
       /\ pc' = IF \A i \in 1..Len(loads') : loads'[i].read
                THEN "loaded" ELSE "loading"

\* the continuation of loadFile when fs.readFile has read the file of the
\* l-th call; main() goes on when every file asked for has been loaded
ReadFile(l) ==
  /\ pc = "loading"
  /\ ~loads[l].read
  /\ IF ~HasFile(files, loads[l].name)
     THEN /\ outcome' = Throw("Error", "ENOENT")
          /\ pc' = "crashed"
          /\ UNCHANGED <<engine, loads>>
     ELSE \E adventure \in {NewAdventure(impl, FileNamed(files, loads[l].name),
                                         engine.scenes)} :
            LoadAdventure(l, adventure)
  /\ before' = variables
  /\ UNCHANGED <<variables, impl, source, reference, compiled, evals, files, main, console>>

\* the state linkAdventures leaves
Linked(linked) ==
  /\ engine' = linked.engine
  /\ variables' = linked.variables
  /\ outcome' = linked.outcome
  /\ pc' = IF linked.outcome.k = "ok" THEN "linked" ELSE "crashed"

\* engine.linkAdventures() in main()
LinkAdventures ==
  /\ pc = "loaded"
  /\ \E linked \in {linkAdventures(engine, variables)} : Linked(linked)
  /\ before' = variables
  /\ UNCHANGED <<impl, source, reference, compiled, evals, files, loads, main, console>>

\* what a run of the loop leaves in the variables of the model; response
\* is the line read() resolved with, and turns counts the lines read
Resume(stop, turns, response) ==
  /\ pc' = stop.pc
  /\ outcome' = stop.outcome
  /\ variables' = stop.variables
  /\ console' = stop.console
  /\ main' = [currentScene |-> stop.currentScene,
              availableOptions |-> stop.availableOptions,
              numOptions |-> stop.numOptions,
              history |-> stop.history,
              turns |-> turns,
              response |-> response]
  /\ before' = variables
  /\ UNCHANGED <<impl, source, reference, compiled, evals, engine, files, loads>>

\* engine.runAdventure('adventure') in main(), up to its first await
RunAdventure ==
  /\ pc = "linked"
  /\ \E stop \in {runAdventure(engine, MainAdventure, variables)} :
       Resume(stop, 0, << >>)

\* the player acknowledges a scene with one option
Acknowledge ==
  /\ pc = "awaitAck"
  /\ main.turns < MaxTurns
  /\ \E line \in InputLines, stop \in {Acknowledged(engine, main, variables)} :
       Resume(stop, main.turns + 1, line)

\* the player enters a line at the prompt of getChoice
Choose(line) ==
  /\ pc = "awaitChoice"
  /\ main.turns < MaxTurns
  /\ \E stop \in {Chosen(engine, main, variables, line)} :
       Resume(stop, main.turns + 1, line)

NextEngine ==
  \/ \E l \in 1..Len(loads) : ReadFile(l)
  \/ LinkAdventures
  \/ RunAdventure
  \/ Acknowledge
  \/ \E line \in InputLines : Choose(line)

SpecEngine == InitEngine /\ [][NextEngine]_vars

(***************************************************************************)
(* Specification of loadFile on documents with required fields missing     *)
(***************************************************************************)
\* what a required string field of a document may hold: nothing, the empty
\* string, or a string
RequiredFields(string) == {Absent, << >>, string}

\* adventures/adventure.json with one scene
DocumentJSON(name, title, version, sceneName, sceneTitle, content) ==
  [title |-> title,
   name |-> name,
   version |-> version,
   requires |-> Absent,
   actions |-> Absent,
   globalTop |-> Absent,
   globalBottom |-> Absent,
   startingScene |-> Absent,
   scenes |-> <<SceneJSON(sceneTitle, sceneName, Absent, content, <<WinOption>>)>>]

DocumentDirectories ==
  {<<[name |-> MainAdventure,
      json |-> DocumentJSON(name, title, version, sceneName, sceneTitle, content)]>> :
     name \in RequiredFields(MainAdventure),
     title \in RequiredFields(<<"T">>),
     version \in {<< >>, <<0>>, <<1>>, <<2>>},
     sceneName \in RequiredFields(<<"s", "t", "a", "r", "t">>),
     sceneTitle \in RequiredFields(<<"S">>),
     content \in {AbsentContent, << >>, <<<<"H", "i">>>>}}

\* the state after new AdventureEngine(...) and the call of
\* engine.loadFile('adventures/adventure.json') in main()
InitDocument ==
  /\ impl \in Implementations
  /\ files \in DocumentDirectories
  /\ engine = NewAdventureEngine[impl]
  /\ variables = EmptyStore
  /\ loads = <<[name |-> MainAdventure, read |-> FALSE]>>
  /\ main = [currentScene |-> UndefinedRef, availableOptions |-> << >>,
             numOptions |-> 0, history |-> NewFixedSizeStack(MAX_RETURN_HISTORY),
             turns |-> 0, response |-> << >>]
  /\ console = << >>
  /\ pc = "loading"
  /\ outcome = None
  /\ before = EmptyStore
  /\ source = << >>
  /\ reference = None
  /\ compiled = None
  /\ evals = 0

NextDocument == \E l \in 1..Len(loads) : ReadFile(l)

SpecDocument == InitDocument /\ [][NextDocument]_vars

Document == FileNamed(files, MainAdventure)

Missing(field) == field = Absent \/ field = << >>

\* the first required field of the document that is missing, empty or not
\* the supported version, in the order the constructors read them, as the
\* fatal parse error that names it
RequiredFieldError(json) ==
  IF Missing(json.name) THEN ThrowError("adventure", "name is a required field.")
  ELSE IF Missing(json.title) THEN ThrowError("adventure", "title is a required field.")
  ELSE IF json.version \in {<< >>, <<0>>}
  THEN ThrowError("adventure", "version is a required field.")
  ELSE IF json.version # <<1>> THEN ThrowError("adventure", "invalid version number")
  ELSE IF Missing(json.scenes[1].name) THEN ThrowError("scene", "name is a required field.")
  ELSE IF Missing(json.scenes[1].title)
  THEN ThrowError("scene", "title is a required field.")
  ELSE IF json.scenes[1].content = AbsentContent
  THEN ThrowError("scene", "content is a required field.")
  ELSE IF json.scenes[1].content = << >> THEN ThrowError("scene", "invalid content")
  ELSE None

\* C29: loading a document whose Adventure has no name or title or an
\* empty one, or a version that is not the number 1, or whose Scene has no
\* name, title or content or an empty one, ends in the fatal parse error of
\* ParserContext.throwError for the first such field, and the Adventure is
\* not added to the adventures of the engine
C29_RequiredFields ==
  (pc # "loading" /\ RequiredFieldError(Document) # None)
    => /\ outcome = RequiredFieldError(Document)
       /\ pc = "exited"
       /\ engine.adventures = NewAdventureEngine[impl].adventures

(***************************************************************************)
(* Linking                                                                 *)
(***************************************************************************)
\* every Option target of every registered Scene and every Adventure
\* startingScene of the engine
References(eng) ==
  {eng.adventures[a].startingScene : a \in 1..Len(eng.adventures)}
    \cup UNION {{eng.scenes[i].scene.options[o].target :
                   o \in 1..Len(eng.scenes[i].scene.options)} :
                i \in 1..Len(eng.scenes)}

\* the reference is the Scene registered under its identifier
Resolved(eng, ref) ==
  /\ ref.kind = "scene"
  /\ HasScene(eng.scenes, ref.id)
  /\ SceneAt(eng.scenes, ref.id).scene.identifier = ref.id

\* linkAdventures has returned
LinkCompleted == pc \in {"linked", "awaitAck", "awaitChoice", "returned"}

\* C8: before linkAdventures runs every Option target and every Adventure
\* startingScene is an Identifier string; after it completes each is the
\* Scene registered under that identifier, none a string or undefined
C8_LinkPostCondition ==
  /\ pc \in {"loading", "loaded"}
       => \A ref \in References(engine) : ref.kind = "identifier"
  /\ LinkCompleted => \A ref \in References(engine) : Resolved(engine, ref)

\* adventure and c are loaded and linked, and the Go option of the start
\* scene refers to the scene adventure:b
C8_Witness ==
  /\ pc = "linked"
  /\ Len(engine.adventures) = 3
  /\ \E i \in 1..Len(engine.scenes) :
       \E o \in 1..Len(engine.scenes[i].scene.options) :
         engine.scenes[i].scene.options[o].target
           = SceneRef(<<"a", "d", "v", "e", "n", "t", "u", "r", "e", ":", "b">>)

\* some startingScene or Option target has no entry in the SceneRegistry
Unresolved(eng) == \E ref \in References(eng) : ~HasScene(eng.scenes, ref.id)

LocationTags == {"adventure", "scene", "option", "identifier"}

\* C9: if some startingScene or Option target has no entry in the
\* SceneRegistry when linkAdventures runs, linking ends in a fatal link
\* error reported with a location tag and a message, and the traversal is
\* not started
C9_LinkError ==
  [][(pc = "loaded" /\ Unresolved(engine))
       => /\ pc' = "exited"
          /\ outcome'.k = "exit"
          /\ outcome'.location \in LocationTags]_vars

(***************************************************************************)
(* Menus and choices                                                       *)
(***************************************************************************)
\* the Scene the traversal is at
CurrentScene == SceneAt(engine.scenes, main.currentScene.id).scene

\* the option has no condition, or its condition is true in the store
Available(option, store) ==
  \/ ~option.hasCondition
  \/ /\ ConditionalEvaluate(option.condition, store).k = "ok"
     /\ Truthy(ConditionalEvaluate(option.condition, store).v)

AvailableIndexes(options, store) ==
  {o \in 1..Len(options) : Available(options[o], store)}

\* the indexes are those of the set, in list order
InListOrder(indexes, set) ==
  /\ Len(indexes) = Cardinality(set)
  /\ \A k \in 1..Len(indexes) : indexes[k] \in set
  /\ \A k \in 1..(Len(indexes) - 1) : indexes[k] < indexes[k + 1]

\* the line starts with a number and a colon
IsNumbered(line) ==
  /\ RunEnd(line, 1, Digits) >= 1
  /\ RunEnd(line, 1, Digits) < Len(line)
  /\ line[RunEnd(line, 1, Digits) + 1] = ":"

\* the menu of the scene has just been written
MenuWritten == pc = "awaitChoice" /\ \E p \in 1..Len(console) : console[p] = YouCould

MenuStart == CHOOSE p \in 1..Len(console) : console[p] = YouCould

\* the line of the menu for the k-th available option
NumberedLabel(k, label) == NatToStr(k) \o <<":", " ">> \o label.v

\* the prompt of a scene with one option has no numbered line; the menu of
\* another scene numbers the available options 1..N in list order
MenuNumbering ==
  /\ pc = "awaitAck"
       => /\ Len(CurrentScene.options) = 1
          /\ \A p \in 1..Len(console) : ~IsNumbered(console[p])
  /\ pc = "awaitChoice"
       => /\ Len(CurrentScene.options) # 1
          /\ InListOrder(main.availableOptions,
                         AvailableIndexes(CurrentScene.options, variables))
  /\ MenuWritten
       => /\ \A k \in 1..Len(main.availableOptions) :
               console[MenuStart + k]
                 = NumberedLabel(k, TextEvaluate(
                     CurrentScene.options[main.availableOptions[k]].label, variables))
          /\ ~IsNumbered(console[MenuStart + Len(main.availableOptions) + 1])

\* a line has been read in this step
LineRead == main'.turns = main.turns + 1

\* the traversal is where the loop gets to from the scene the target refers
\* to, in the store the actions of the option left
Entered(stop) ==
  /\ pc' = stop.pc
  /\ outcome' = stop.outcome
  /\ variables' = stop.variables
  /\ console' = stop.console
  /\ main'.currentScene = stop.currentScene

\* the step ran the actions of the option, and of no other option, and
\* went on at its target
Taken(option, acts) ==
  IF acts.outcome.k # "ok"
  THEN pc' = "crashed" /\ outcome' = acts.outcome /\ variables' = acts.store
  ELSE Entered(RunLoop(engine, option.target, acts.store, main.history, << >>))

\* C10: a scene with exactly one Option shows no numbered prompt and takes
\* that Option after one acknowledgement; another scene numbers only the
\* available Options as 1..N in list order, and entering k with
\* 1 <= k <= N runs the actions of the k-th available Option, and of no
\* other, and goes to its target
C10_MenuNumbering ==
  /\ []MenuNumbering
  /\ [][/\ (pc = "awaitAck" /\ LineRead)
             => Taken(CurrentScene.options[1],
                      EvaluateActions(CurrentScene.options[1].actions,
                                      Running(variables)))
        /\ \A k \in 1..Len(main.availableOptions) :
             (pc = "awaitChoice" /\ LineRead
                /\ Number(Trim(main'.response)) = IntNum(k))
             => Taken(CurrentScene.options[main.availableOptions[k]],
                      EvaluateActions(
                        CurrentScene.options[main.availableOptions[k]].actions,
                        Running(variables)))]_vars

\* the start scene offered Go, Win and Hide while g = 0, which numbers Go
\* as 1 and Hide as 2; the player entered 2, Hide was taken and the start
\* scene is shown again
C10_Witness ==
  /\ pc = "awaitChoice"
  /\ main.turns = 1
  /\ main.response = <<"2">>
  /\ main.availableOptions = <<1, 3>>
  /\ Len(CurrentScene.options) = 3
  /\ CurrentScene.options[2].hasCondition
  /\ main.currentScene = SceneRef(<<"a", "d", "v", "e", "n", "t", "u", "r", "e", ":", "s", "t", "a", "r", "t">>)
  /\ MenuWritten

\* the line stands for an integer k with 1 <= k <= n
ValidChoice(line, n) == \E k \in 1..n : Number(Trim(line)) = IntNum(k)

\* C11: in a scene with N available Options every input other than an
\* integer k with 1 <= k <= N is rejected and asked again: the traversal
\* stays at the scene, awaiting input, and no Option is taken
C11_ChoiceValidation ==
  [][(pc = "awaitChoice" /\ LineRead
        /\ ~ValidChoice(main'.response, Len(main.availableOptions)))
       => /\ pc' = "awaitChoice"
          /\ main'.currentScene = main.currentScene
          /\ main'.availableOptions = main.availableOptions
          /\ variables' = variables]_vars

(***************************************************************************)
(* Transitions of the traversal                                            *)
(***************************************************************************)
ControlScene(name) == SceneRef(asIdentifier(INKSPIRE_NAMESPACE, name))
BackScene == ControlScene(<<"b", "a", "c", "k">>)
FailScene == ControlScene(<<"f", "a", "i", "l">>)
PassScene == ControlScene(<<"p", "a", "s", "s">>)

\* the traversal awaits a line and reads it in this step
InputStep == pc \in {"awaitAck", "awaitChoice"} /\ LineRead

\* the options of the current scene this step takes: the only option of a
\* scene that awaited an acknowledgement, the k-th available option when
\* the line read stands for k
ChosenOptions ==
  IF pc = "awaitAck" THEN {CurrentScene.options[1]}
  ELSE {CurrentScene.options[main.availableOptions[k]] :
          k \in {j \in 1..Len(main.availableOptions) :
                   Number(Trim(main'.response)) = IntNum(j)}}

\* the actions of the option run without an exception
ActionsRun(option) ==
  EvaluateActions(option.actions, Running(variables)).outcome.k = "ok"

\* C12: every transition out of a Scene S through a chosen Option pushes S
\* onto History; when the current scene becomes inkspire:back the traversal
\* pops History and re-enters the Scene left most recently, and the
\* re-entry pushes no History entry
C12_HistoryAndBack ==
  [][InputStep =>
       \A option \in ChosenOptions :
         ActionsRun(option) =>
           IF option.target = BackScene
           THEN /\ pc' \in {"awaitAck", "awaitChoice"}
                /\ main'.currentScene = main.currentScene
                /\ main'.history = main.history
           ELSE pc' # "crashed" =>
                  main'.history = FixedSizeStackPush(main.history, main.currentScene)]_vars

\* C14: when the current scene becomes inkspire:back while History is
\* empty, the traversal has a defined fallback and does not continue with
\* an undefined current scene
C14_BackOnEmptyHistory ==
  [][InputStep =>
       \A option \in ChosenOptions :
         (ActionsRun(option) /\ option.target = BackScene
            /\ main.history.items = << >>)
         => /\ pc' # "crashed"
            /\ main'.currentScene.kind = "scene"]_vars

\* the line runAdventure writes when the traversal ends at the scene
TerminalMessage(scene) == IF scene = FailScene THEN YouFailed ELSE YouWin

\* C15: whenever the current scene becomes inkspire:fail or inkspire:pass
\* the traversal writes the failure or success message and terminates: the
\* entry actions of the control scene are not run and its title and content
\* are not rendered, and no further input is read and no further
\* VariableStore write is made in that run
C15_TerminalScenes ==
  /\ [][InputStep =>
          \A option \in ChosenOptions :
            (ActionsRun(option) /\ option.target \in {FailScene, PassScene})
            => /\ pc' = "returned"
               /\ main'.currentScene = option.target
               /\ console' = <<TerminalMessage(option.target)>>
               /\ variables'
                    = EvaluateActions(option.actions, Running(variables)).store]_vars
  /\ [][pc # "returned"]_vars

\* the start scene's Go option led to b and b's Fail option, whose action
\* wrote g = 2, to inkspire:fail: "You failed" is all that was written
C15_Witness ==
  /\ pc = "returned"
  /\ main.currentScene = FailScene
  /\ main.turns = 2
  /\ console = <<YouFailed>>
  /\ Lookup(variables, <<"a", "d", "v", "e", "n", "t", "u", "r", "e", ":", "g">>) = IntNum(2)

\* the option has a condition that evaluates to false in the store
ConditionFalse(option, store) ==
  /\ option.hasCondition
  /\ ConditionalEvaluate(option.condition, store).k = "ok"
  /\ ~Truthy(ConditionalEvaluate(option.condition, store).v)

\* C17: the actions of an Option are not run and the transition to its
\* target is not taken when the Option has a condition that is false in the
\* VariableStore in which the options of the scene are presented, in a
\* scene with several Options and in a scene with one
C17_ConditionGating ==
  [][InputStep =>
       \A o \in 1..Len(CurrentScene.options) :
         ConditionFalse(CurrentScene.options[o], variables)
         => ~Taken(CurrentScene.options[o],
                   EvaluateActions(CurrentScene.options[o].actions,
                                   Running(variables)))]_vars

(***************************************************************************)
(* Rendering of a scene                                                    *)
(***************************************************************************)
\* the document the adventure of the scene was loaded from
DocumentOf(scene) ==
  IF scene.adventure = INKSPIRE_NAMESPACE THEN InkspireJSON
  ELSE FileNamed(files, scene.adventure)

Declared(field) == field # Absent /\ field # << >>

\* the rendering of the string as a Text of the adventure, in the store
RenderingOf(string, adventureName, store) ==
  TextEvaluate(NewText(impl, string, adventureName, "ParserContext").v, store).v

\* the rendering of a declared globalTop or globalBottom, nothing for one
\* that is not declared
GlobalLine(field, adventureName, store) ==
  IF Declared(field) THEN <<RenderingOf(field, adventureName, store)>> ELSE << >>

\* the lines a render of the scene is to write after the blank lines: the
\* title, globalTop, the non-empty content paragraphs, globalBottom
SceneLines(scene, document, store) ==
  <<TextEvaluate(scene.title, store).v>>
    \o GlobalLine(document.globalTop, scene.adventure, store)
    \o NonEmpty(EvaluateTexts(scene.content, Ok(<< >>), store).v)
    \o GlobalLine(document.globalBottom, scene.adventure, store)

\* the scene the traversal is at has just been rendered
SceneRendered ==
  /\ pc \in {"awaitAck", "awaitChoice"}
  /\ Len(console) > Len(BlankLines)
  /\ SubSeq(console, 1, Len(BlankLines)) = BlankLines

\* C18: each render of a Scene of an Adventure that declares globalTop g
\* and globalBottom b writes, in this order, the scene title, the rendering
\* of g, the non-empty content paragraphs and the rendering of b; when g or
\* b is not declared nothing is written in its place
C18_GlobalHeaderFooter ==
  SceneRendered
  => SubSeq(console, Len(BlankLines) + 1,
            Len(BlankLines) + Len(SceneLines(CurrentScene, DocumentOf(CurrentScene), variables)))
       = SceneLines(CurrentScene, DocumentOf(CurrentScene), variables)

(***************************************************************************)
(* Order of a turn                                                         *)
(***************************************************************************)
\* the scene the step stops at
SceneEntered == SceneAt(engine.scenes, main'.currentScene.id).scene

\* the store the actions leave, each run once
StoreAfter(actions, store) == EvaluateActions(actions, Running(store)).store

\* every non-empty content paragraph of the scene, rendered in the store,
\* is among the lines
ContentWritten(scene, store, lines) ==
  \A i \in 1..Len(scene.content) :
    TextEvaluate(scene.content[i], store).v # << >>
      => \E p \in 1..Len(lines) : lines[p] = TextEvaluate(scene.content[i], store).v

\* the step entered the target and stopped at it awaiting input: from the
\* given store its entry actions ran once, and the title, the content and
\* the partition of its options are those of the store they left
EnteredFrom(target, store) ==
  pc' \in {"awaitAck", "awaitChoice"}
  => /\ main'.currentScene = target
     /\ variables' = StoreAfter(SceneEntered.actions, store)
     /\ Len(console') > Len(BlankLines)
     /\ console'[Len(BlankLines) + 1] = TextEvaluate(SceneEntered.title, variables').v
     /\ ContentWritten(SceneEntered, variables', console')
     /\ pc' = "awaitChoice"
          => InListOrder(main'.availableOptions,
                         AvailableIndexes(SceneEntered.options, variables'))

\* the option was taken: its actions ran once, and then its target was
\* entered
TakenThenEntered(option) ==
  EnteredFrom(option.target, StoreAfter(option.actions, variables))

\* C27: on every entry into a non-control Scene S, the entry actions of S
\* run exactly once, before the title and content of S are rendered and
\* before the conditions of its Options are evaluated, so that the rendered
\* text and the partition reflect the VariableStore after the entry
\* actions; the actions of the chosen Option run exactly once, after the
\* choice and before the entry actions of the target scene
C27_TurnOrdering ==
  [][/\ pc = "linked"
          => EnteredFrom(AdventureNamed(engine.adventures, MainAdventure).startingScene,
                         variables)
     /\ (pc = "awaitAck" /\ LineRead) => TakenThenEntered(CurrentScene.options[1])
     /\ \A k \in 1..Len(main.availableOptions) :
          (pc = "awaitChoice" /\ LineRead /\ Number(Trim(main'.response)) = IntNum(k))
          => TakenThenEntered(CurrentScene.options[main.availableOptions[k]])]_vars

\* the start scene counts its entries in g; Go led to b, whose option Hide
\* set g to 0 and led back, and the start scene is shown again with g = 1
\* and the line HP 1
C27_Witness ==
  /\ pc = "awaitChoice"
  /\ main.turns = 2
  /\ main.currentScene = SceneRef(asIdentifier(MainAdventure, <<"s", "t", "a", "r", "t">>))
  /\ CurrentScene.actions # << >>
  /\ before = [n \in {asIdentifier(MainAdventure, <<"g">>)} |-> IntNum(1)]
  /\ variables = [n \in {asIdentifier(MainAdventure, <<"g">>)} |-> IntNum(1)]
  /\ \E p \in 1..Len(console) : console[p] = <<"H", "P", " ", "1">>

(***************************************************************************)
(* Loading                                                                 *)
(***************************************************************************)
\* the fatal exits of a second load of an adventure: of loadAdventure for
\* its name, of the Adventure constructor for its scenes
DuplicateExit ==
  /\ pc = "exited"
  /\ outcome.k = "exit"
  /\ outcome.msg \in {"already loaded", "Scene identifiers must be unique"}

\* every adventure a loaded adventure requires is loaded
RequiredLoaded(eng) ==
  \A a \in 1..Len(eng.adventures) :
    \A r \in 1..Len(eng.adventures[a].requires) :
      HasAdventure(eng.adventures, eng.adventures[a].requires[r])

\* C20: for every requires graph, with cycles, shared requirements and
\* names listed twice, each adventure is loaded exactly once: under every
\* interleaving of the file reads the duplicate-adventure / duplicate-scene
\* fatal exit is not reached, and when loadFile resolves every adventure
\* required transitively is loaded
C20_DependencyLoading ==
  /\ ~DuplicateExit
  /\ pc = "loaded" => RequiredLoaded(engine)
  /\ engine # None
       => \A a, b \in 1..Len(engine.adventures) :
            engine.adventures[a].name = engine.adventures[b].name => a = b

(***************************************************************************)
(* Load-time actions                                                       *)
(***************************************************************************)
\* the load-time actions of the adventures from the a-th on, each list run
\* once, in the order the adventures were loaded in
RECURSIVE LoadTimeActions(_, _, _)
LoadTimeActions(adventures, a, st) ==
  IF a > Len(adventures) \/ st.outcome.k # "ok" THEN st
  ELSE LoadTimeActions(adventures, a + 1, EvaluateActions(adventures[a].actions, st))

\* every adventure a loaded adventure requires is loaded
RequiredAreLoaded ==
  \A a \in 1..Len(engine.adventures) :
    \A r \in 1..Len(engine.adventures[a].requires) :
      HasAdventure(engine.adventures, engine.adventures[a].requires[r])

\* C21: in the sequence loadFile, linkAdventures, runAdventure, the
\* load-time actions of every loaded Adventure (the main one and every
\* required one) are evaluated exactly once, and all of them before the
\* first scene entry action runs, the first Text is rendered or the first
\* Option condition is evaluated: loading evaluates and writes nothing, and
\* a linkAdventures that returns leaves the store the load-time actions of
\* all loaded adventures give when each list is run once, with nothing
\* written yet
C21_LoadTimeActions ==
  /\ [](pc \in {"loading", "loaded"} => variables = EmptyStore /\ console = << >>)
  /\ [](pc = "loaded" => RequiredAreLoaded)
  /\ [][(pc = "loaded" /\ pc' = "linked")
        => /\ variables' = LoadTimeActions(engine.adventures, 1, Running(variables)).store
           /\ console' = << >>]_vars

\* adventure.json sets g to 0, c.json counts its load in g, and both are
\* linked
C21_Witness ==
  /\ pc = "linked"
  /\ HasAdventure(engine.adventures, <<"c">>)
  /\ AdventureNamed(engine.adventures, <<"c">>).actions # << >>
  /\ AdventureNamed(engine.adventures, MainAdventure).actions # << >>
  /\ variables = [n \in {asIdentifier(MainAdventure, <<"g">>)} |-> IntNum(1)]


(***************************************************************************)
(* Specification of the History of one traversal: a FixedSizeStack of      *)
(* MAX_RETURN_HISTORY entries that scenes are pushed on and popped from    *)
(***************************************************************************)
MaxPushes == 18
MaxPops == 2

\* the n-th scene pushed
Visited(n) == SceneRef(NatToStr(n))

InitHistory ==
  /\ main = [history |-> NewFixedSizeStack(MAX_RETURN_HISTORY), pushed |-> 0, popped |-> 0]
  /\ pc = "traversing"
  /\ outcome = None
  /\ variables = EmptyStore
  /\ before = EmptyStore
  /\ impl = "variables.js"
  /\ source = << >>
  /\ reference = None
  /\ compiled = None
  /\ evals = 0
  /\ engine = None
  /\ files = << >>
  /\ loads = << >>
  /\ console = << >>

\* history.push(scene) for the scene the traversal leaves
PushHistory ==
  /\ main.pushed < MaxPushes
  /\ main' = [main EXCEPT !.history = FixedSizeStackPush(@, Visited(main.pushed + 1)),
                          !.pushed = @ + 1]
  /\ UNCHANGED <<variables, impl, source, reference, compiled, outcome, before, evals,
                 pc, engine, files, loads, console>>

\* currentScene = history.pop()
PopHistory ==
  /\ main.popped < MaxPops
  /\ outcome' = Ok(FixedSizeStackPop(main.history).value)
  /\ main' = [main EXCEPT !.history = FixedSizeStackPop(main.history).stack,
                          !.popped = @ + 1]
  /\ UNCHANGED <<variables, impl, source, reference, compiled, before, evals,
                 pc, engine, files, loads, console>>

NextHistory == PushHistory \/ PopHistory

SpecHistory == InitHistory /\ [][NextHistory]_vars

\* the scenes pushed from the first-th to the last-th, oldest first
VisitedFrom(first, last) == [k \in 1..(last - first + 1) |-> Visited(first + k - 1)]

TakesOption(line) ==
  /\ ~ChoiceRefused(Number(Trim(line)), main.numOptions)
  /\ IsFinite(Number(Trim(line)))
  /\ Number(Trim(line)).d = 1
  /\ Number(Trim(line)).n \in 1..Len(main.availableOptions)

\* C30: whenever the traversal awaits the choice of a menu there is a line
\* that getChoice accepts and that takes the traversal to the target of an
\* Option: it never awaits an input that cannot be accepted, as in a scene
\* without Options or a scene whose Options are all unavailable
C30_Progress ==
  pc = "awaitChoice" => \E line \in InputLines : TakesOption(line)

=============================================================================
